---------------------------- MODULE Spec2Model ----------------------------
(***************************************************************************)
(* Model of DetermineMimes/determineMimeTypes.py: the mapping loader, the  *)
(* regex classifier (match_mime), the count-file aggregator                *)
(* (process_counts, sum_counts), the three report writers and main.        *)
(*                                                                         *)
(* Text is a sequence of characters, so that lower(), strip(), int() and   *)
(* the regular expressions are computed character by character.            *)
(* A CSV file is the sequence of rows csv.reader yields for it; a row is a *)
(* sequence of fields (a blank line is the row << >>).                     *)
(***************************************************************************)
EXTENDS Integers, Sequences, FiniteSets

(***************************************************************************)
(* Characters.  The files are opened with encoding utf-8: a character is   *)
(* any Unicode character, here its code point, and a text is the sequence  *)
(* of its characters.  The tables are those of the Unicode database of the *)
(* interpreter (14.0.0, Python 3.11).                                      *)
(***************************************************************************)
\* The printable characters of ASCII from U+0020 to U+005F.
AsciiLow ==
    <<" ", "!", "\"", "#", "$", "%", "&", "'", "(", ")", "*", "+", ",", "-", ".", "/",
      "0", "1", "2", "3", "4", "5", "6", "7", "8", "9", ":", ";", "<", "=", ">", "?",
      "@", "A", "B", "C", "D", "E", "F", "G", "H", "I", "J", "K", "L", "M", "N", "O",
      "P", "Q", "R", "S", "T", "U", "V", "W", "X", "Y", "Z", "[", "\\", "]", "^", "_">>

\* The printable characters of ASCII from U+0061 to U+007E.
AsciiHigh ==
    <<"a", "b", "c", "d", "e", "f", "g", "h", "i", "j", "k", "l", "m", "n", "o", "p",
      "q", "r", "s", "t", "u", "v", "w", "x", "y", "z", "{", "|", "}", "~">>

Range(s) == {s[i] : i \in DOMAIN s}

\* The code point of a printable character of ASCII.
ord(ch) ==
    IF \E i \in DOMAIN AsciiLow : AsciiLow[i] = ch
    THEN 31 + (CHOOSE i \in DOMAIN AsciiLow : AsciiLow[i] = ch)
    ELSE 96 + (CHOOSE i \in DOMAIN AsciiHigh : AsciiHigh[i] = ch)

\* The text with the given characters.
Text(s) == [i \in DOMAIN s |-> ord(s[i])]

LowerLetters ==
    Text(<<"a", "b", "c", "d", "e", "f", "g", "h", "i", "j", "k", "l", "m",
           "n", "o", "p", "q", "r", "s", "t", "u", "v", "w", "x", "y", "z">>)

UpperLetters ==
    Text(<<"A", "B", "C", "D", "E", "F", "G", "H", "I", "J", "K", "L", "M",
           "N", "O", "P", "Q", "R", "S", "T", "U", "V", "W", "X", "Y", "Z">>)

Digits ==
    Text(<<"0", "1", "2", "3", "4", "5", "6", "7", "8", "9">>)

Underscore == ord("_")

PlusSign == ord("+")

MinusSign == ord("-")

\* The line feed, U+000A.
LineFeed == 10

\* Python's None.  No text equals it: no character is negative.
None == <<0 - 1>>

\* Truth value of a str-or-None in an if/elif: None and "" are false.
truthy(x) == x # None /\ x # << >>

(***************************************************************************)
(* A table is a sequence of entries <<first, last, step, ...>> in          *)
(* increasing order, each last below the next first.  An entry holds the   *)
(* characters first, first + step, ..., last.                              *)
(***************************************************************************)
RECURSIVE entry_between(_, _, _, _)
entry_between(table, c, lo, hi) ==
    IF lo > hi THEN 0
    ELSE LET mid == (lo + hi) \div 2
         IN  IF c < table[mid][1] THEN entry_between(table, c, lo, mid - 1)
             ELSE IF c > table[mid][2] THEN entry_between(table, c, mid + 1, hi)
             ELSE mid

\* The index of the entry that holds c, or 0.
entry_of(table, c) ==
    LET i == entry_between(table, c, 1, Len(table))
    IN  IF i # 0 /\ (c - table[i][1]) % table[i][3] = 0 THEN i ELSE 0

holds(table, c) == entry_of(table, c) # 0

\* The characters with a one-character lower-case form other than themselves:
\* the fourth component is the distance to that form.
LowerMap ==
    << <<65, 90, 1, 32>>, <<192, 214, 1, 32>>, <<216, 222, 1, 32>>, <<256, 302, 2, 1>>,
       <<304, 304, 1, 0 - 199>>, <<306, 310, 2, 1>>, <<313, 327, 2, 1>>, <<330, 374, 2, 1>>,
       <<376, 376, 1, 0 - 121>>, <<377, 381, 2, 1>>, <<385, 385, 1, 210>>, <<386, 388, 2, 1>>,
       <<390, 390, 1, 206>>, <<391, 391, 1, 1>>, <<393, 394, 1, 205>>, <<395, 395, 1, 1>>,
       <<398, 398, 1, 79>>, <<399, 399, 1, 202>>, <<400, 400, 1, 203>>, <<401, 401, 1, 1>>,
       <<403, 403, 1, 205>>, <<404, 404, 1, 207>>, <<406, 406, 1, 211>>, <<407, 407, 1, 209>>,
       <<408, 408, 1, 1>>, <<412, 412, 1, 211>>, <<413, 413, 1, 213>>, <<415, 415, 1, 214>>,
       <<416, 420, 2, 1>>, <<422, 422, 1, 218>>, <<423, 423, 1, 1>>, <<425, 425, 1, 218>>,
       <<428, 428, 1, 1>>, <<430, 430, 1, 218>>, <<431, 431, 1, 1>>, <<433, 434, 1, 217>>,
       <<435, 437, 2, 1>>, <<439, 439, 1, 219>>, <<440, 440, 1, 1>>, <<444, 444, 1, 1>>,
       <<452, 452, 1, 2>>, <<453, 453, 1, 1>>, <<455, 455, 1, 2>>, <<456, 456, 1, 1>>,
       <<458, 458, 1, 2>>, <<459, 475, 2, 1>>, <<478, 494, 2, 1>>, <<497, 497, 1, 2>>,
       <<498, 500, 2, 1>>, <<502, 502, 1, 0 - 97>>, <<503, 503, 1, 0 - 56>>, <<504, 542, 2, 1>>,
       <<544, 544, 1, 0 - 130>>, <<546, 562, 2, 1>>, <<570, 570, 1, 10795>>, <<571, 571, 1, 1>>,
       <<573, 573, 1, 0 - 163>>, <<574, 574, 1, 10792>>, <<577, 577, 1, 1>>, <<579, 579, 1, 0 - 195>>,
       <<580, 580, 1, 69>>, <<581, 581, 1, 71>>, <<582, 590, 2, 1>>, <<880, 882, 2, 1>>,
       <<886, 886, 1, 1>>, <<895, 895, 1, 116>>, <<902, 902, 1, 38>>, <<904, 906, 1, 37>>,
       <<908, 908, 1, 64>>, <<910, 911, 1, 63>>, <<913, 929, 1, 32>>, <<931, 939, 1, 32>>,
       <<975, 975, 1, 8>>, <<984, 1006, 2, 1>>, <<1012, 1012, 1, 0 - 60>>, <<1015, 1015, 1, 1>>,
       <<1017, 1017, 1, 0 - 7>>, <<1018, 1018, 1, 1>>, <<1021, 1023, 1, 0 - 130>>, <<1024, 1039, 1, 80>>,
       <<1040, 1071, 1, 32>>, <<1120, 1152, 2, 1>>, <<1162, 1214, 2, 1>>, <<1216, 1216, 1, 15>>,
       <<1217, 1229, 2, 1>>, <<1232, 1326, 2, 1>>, <<1329, 1366, 1, 48>>, <<4256, 4293, 1, 7264>>,
       <<4295, 4295, 1, 7264>>, <<4301, 4301, 1, 7264>>, <<5024, 5103, 1, 38864>>, <<5104, 5109, 1, 8>>,
       <<7312, 7354, 1, 0 - 3008>>, <<7357, 7359, 1, 0 - 3008>>, <<7680, 7828, 2, 1>>, <<7838, 7838, 1, 0 - 7615>>,
       <<7840, 7934, 2, 1>>, <<7944, 7951, 1, 0 - 8>>, <<7960, 7965, 1, 0 - 8>>, <<7976, 7983, 1, 0 - 8>>,
       <<7992, 7999, 1, 0 - 8>>, <<8008, 8013, 1, 0 - 8>>, <<8025, 8031, 2, 0 - 8>>, <<8040, 8047, 1, 0 - 8>>,
       <<8072, 8079, 1, 0 - 8>>, <<8088, 8095, 1, 0 - 8>>, <<8104, 8111, 1, 0 - 8>>, <<8120, 8121, 1, 0 - 8>>,
       <<8122, 8123, 1, 0 - 74>>, <<8124, 8124, 1, 0 - 9>>, <<8136, 8139, 1, 0 - 86>>, <<8140, 8140, 1, 0 - 9>>,
       <<8152, 8153, 1, 0 - 8>>, <<8154, 8155, 1, 0 - 100>>, <<8168, 8169, 1, 0 - 8>>, <<8170, 8171, 1, 0 - 112>>,
       <<8172, 8172, 1, 0 - 7>>, <<8184, 8185, 1, 0 - 128>>, <<8186, 8187, 1, 0 - 126>>, <<8188, 8188, 1, 0 - 9>>,
       <<8486, 8486, 1, 0 - 7517>>, <<8490, 8490, 1, 0 - 8383>>, <<8491, 8491, 1, 0 - 8262>>, <<8498, 8498, 1, 28>>,
       <<8544, 8559, 1, 16>>, <<8579, 8579, 1, 1>>, <<9398, 9423, 1, 26>>, <<11264, 11311, 1, 48>>,
       <<11360, 11360, 1, 1>>, <<11362, 11362, 1, 0 - 10743>>, <<11363, 11363, 1, 0 - 3814>>, <<11364, 11364, 1, 0 - 10727>>,
       <<11367, 11371, 2, 1>>, <<11373, 11373, 1, 0 - 10780>>, <<11374, 11374, 1, 0 - 10749>>, <<11375, 11375, 1, 0 - 10783>>,
       <<11376, 11376, 1, 0 - 10782>>, <<11378, 11378, 1, 1>>, <<11381, 11381, 1, 1>>, <<11390, 11391, 1, 0 - 10815>>,
       <<11392, 11490, 2, 1>>, <<11499, 11501, 2, 1>>, <<11506, 11506, 1, 1>>, <<42560, 42604, 2, 1>>,
       <<42624, 42650, 2, 1>>, <<42786, 42798, 2, 1>>, <<42802, 42862, 2, 1>>, <<42873, 42875, 2, 1>>,
       <<42877, 42877, 1, 0 - 35332>>, <<42878, 42886, 2, 1>>, <<42891, 42891, 1, 1>>, <<42893, 42893, 1, 0 - 42280>>,
       <<42896, 42898, 2, 1>>, <<42902, 42920, 2, 1>>, <<42922, 42922, 1, 0 - 42308>>, <<42923, 42923, 1, 0 - 42319>>,
       <<42924, 42924, 1, 0 - 42315>>, <<42925, 42925, 1, 0 - 42305>>, <<42926, 42926, 1, 0 - 42308>>, <<42928, 42928, 1, 0 - 42258>>,
       <<42929, 42929, 1, 0 - 42282>>, <<42930, 42930, 1, 0 - 42261>>, <<42931, 42931, 1, 928>>, <<42932, 42946, 2, 1>>,
       <<42948, 42948, 1, 0 - 48>>, <<42949, 42949, 1, 0 - 42307>>, <<42950, 42950, 1, 0 - 35384>>, <<42951, 42953, 2, 1>>,
       <<42960, 42960, 1, 1>>, <<42966, 42968, 2, 1>>, <<42997, 42997, 1, 1>>, <<65313, 65338, 1, 32>>,
       <<66560, 66599, 1, 40>>, <<66736, 66771, 1, 40>>, <<66928, 66938, 1, 39>>, <<66940, 66954, 1, 39>>,
       <<66956, 66962, 1, 39>>, <<66964, 66965, 1, 39>>, <<68736, 68786, 1, 64>>, <<71840, 71871, 1, 32>>,
       <<93760, 93791, 1, 32>>, <<125184, 125217, 1, 34>> >>

\* The characters that are their own lower-case form and have an upper-case
\* form other than themselves.
UpperMapped ==
    << <<97, 122, 1>>, <<181, 181, 1>>, <<223, 246, 1>>, <<248, 255, 1>>, <<257, 311, 2>>,
       <<314, 328, 2>>, <<329, 375, 2>>, <<378, 382, 2>>, <<383, 384, 1>>, <<387, 389, 2>>,
       <<392, 392, 1>>, <<396, 396, 1>>, <<402, 402, 1>>, <<405, 405, 1>>, <<409, 410, 1>>,
       <<414, 414, 1>>, <<417, 421, 2>>, <<424, 424, 1>>, <<429, 429, 1>>, <<432, 432, 1>>,
       <<436, 438, 2>>, <<441, 441, 1>>, <<445, 447, 2>>, <<454, 454, 1>>, <<457, 457, 1>>,
       <<460, 476, 2>>, <<477, 495, 2>>, <<496, 496, 1>>, <<499, 501, 2>>, <<505, 543, 2>>,
       <<547, 563, 2>>, <<572, 572, 1>>, <<575, 576, 1>>, <<578, 578, 1>>, <<583, 591, 2>>,
       <<592, 596, 1>>, <<598, 599, 1>>, <<601, 603, 2>>, <<604, 604, 1>>, <<608, 609, 1>>,
       <<611, 613, 2>>, <<614, 616, 2>>, <<617, 620, 1>>, <<623, 625, 2>>, <<626, 626, 1>>,
       <<629, 629, 1>>, <<637, 637, 1>>, <<640, 642, 2>>, <<643, 643, 1>>, <<647, 652, 1>>,
       <<658, 658, 1>>, <<669, 670, 1>>, <<837, 837, 1>>, <<881, 883, 2>>, <<887, 887, 1>>,
       <<891, 893, 1>>, <<912, 912, 1>>, <<940, 974, 1>>, <<976, 977, 1>>, <<981, 983, 1>>,
       <<985, 1007, 2>>, <<1008, 1011, 1>>, <<1013, 1013, 1>>, <<1016, 1016, 1>>, <<1019, 1019, 1>>,
       <<1072, 1119, 1>>, <<1121, 1153, 2>>, <<1163, 1215, 2>>, <<1218, 1230, 2>>, <<1231, 1327, 2>>,
       <<1377, 1415, 1>>, <<4304, 4346, 1>>, <<4349, 4351, 1>>, <<5112, 5117, 1>>, <<7296, 7304, 1>>,
       <<7545, 7545, 1>>, <<7549, 7549, 1>>, <<7566, 7566, 1>>, <<7681, 7829, 2>>, <<7830, 7835, 1>>,
       <<7841, 7935, 2>>, <<7936, 7943, 1>>, <<7952, 7957, 1>>, <<7968, 7975, 1>>, <<7984, 7991, 1>>,
       <<8000, 8005, 1>>, <<8016, 8023, 1>>, <<8032, 8039, 1>>, <<8048, 8061, 1>>, <<8064, 8071, 1>>,
       <<8080, 8087, 1>>, <<8096, 8103, 1>>, <<8112, 8116, 1>>, <<8118, 8119, 1>>, <<8126, 8126, 1>>,
       <<8130, 8132, 1>>, <<8134, 8135, 1>>, <<8144, 8147, 1>>, <<8150, 8151, 1>>, <<8160, 8167, 1>>,
       <<8178, 8180, 1>>, <<8182, 8183, 1>>, <<8526, 8526, 1>>, <<8560, 8575, 1>>, <<8580, 8580, 1>>,
       <<9424, 9449, 1>>, <<11312, 11359, 1>>, <<11361, 11361, 1>>, <<11365, 11366, 1>>, <<11368, 11372, 2>>,
       <<11379, 11379, 1>>, <<11382, 11382, 1>>, <<11393, 11491, 2>>, <<11500, 11502, 2>>, <<11507, 11507, 1>>,
       <<11520, 11557, 1>>, <<11559, 11559, 1>>, <<11565, 11565, 1>>, <<42561, 42605, 2>>, <<42625, 42651, 2>>,
       <<42787, 42799, 2>>, <<42803, 42863, 2>>, <<42874, 42876, 2>>, <<42879, 42887, 2>>, <<42892, 42892, 1>>,
       <<42897, 42899, 2>>, <<42900, 42900, 1>>, <<42903, 42921, 2>>, <<42933, 42947, 2>>, <<42952, 42954, 2>>,
       <<42961, 42961, 1>>, <<42967, 42969, 2>>, <<42998, 42998, 1>>, <<43859, 43859, 1>>, <<43888, 43967, 1>>,
       <<64256, 64262, 1>>, <<64275, 64279, 1>>, <<65345, 65370, 1>>, <<66600, 66639, 1>>, <<66776, 66811, 1>>,
       <<66967, 66977, 1>>, <<66979, 66993, 1>>, <<66995, 67001, 1>>, <<67003, 67004, 1>>, <<68800, 68850, 1>>,
       <<71872, 71903, 1>>, <<93792, 93823, 1>>, <<125218, 125251, 1>> >>

\* The characters that are case-ignorable.
CaseIgnorable ==
    << <<39, 39, 1>>, <<46, 46, 1>>, <<58, 58, 1>>, <<94, 94, 1>>, <<96, 96, 1>>,
       <<168, 168, 1>>, <<173, 173, 1>>, <<175, 175, 1>>, <<180, 180, 1>>, <<183, 184, 1>>,
       <<688, 879, 1>>, <<884, 885, 1>>, <<890, 890, 1>>, <<900, 901, 1>>, <<903, 903, 1>>,
       <<1155, 1161, 1>>, <<1369, 1369, 1>>, <<1375, 1375, 1>>, <<1425, 1469, 1>>, <<1471, 1471, 1>>,
       <<1473, 1474, 1>>, <<1476, 1477, 1>>, <<1479, 1479, 1>>, <<1524, 1524, 1>>, <<1536, 1541, 1>>,
       <<1552, 1562, 1>>, <<1564, 1564, 1>>, <<1600, 1600, 1>>, <<1611, 1631, 1>>, <<1648, 1648, 1>>,
       <<1750, 1757, 1>>, <<1759, 1768, 1>>, <<1770, 1773, 1>>, <<1807, 1807, 1>>, <<1809, 1809, 1>>,
       <<1840, 1866, 1>>, <<1958, 1968, 1>>, <<2027, 2037, 1>>, <<2042, 2042, 1>>, <<2045, 2045, 1>>,
       <<2070, 2093, 1>>, <<2137, 2139, 1>>, <<2184, 2184, 1>>, <<2192, 2193, 1>>, <<2200, 2207, 1>>,
       <<2249, 2306, 1>>, <<2362, 2362, 1>>, <<2364, 2364, 1>>, <<2369, 2376, 1>>, <<2381, 2381, 1>>,
       <<2385, 2391, 1>>, <<2402, 2403, 1>>, <<2417, 2417, 1>>, <<2433, 2433, 1>>, <<2492, 2492, 1>>,
       <<2497, 2500, 1>>, <<2509, 2509, 1>>, <<2530, 2531, 1>>, <<2558, 2558, 1>>, <<2561, 2562, 1>>,
       <<2620, 2620, 1>>, <<2625, 2626, 1>>, <<2631, 2632, 1>>, <<2635, 2637, 1>>, <<2641, 2641, 1>>,
       <<2672, 2673, 1>>, <<2677, 2677, 1>>, <<2689, 2690, 1>>, <<2748, 2748, 1>>, <<2753, 2757, 1>>,
       <<2759, 2760, 1>>, <<2765, 2765, 1>>, <<2786, 2787, 1>>, <<2810, 2815, 1>>, <<2817, 2817, 1>>,
       <<2876, 2876, 1>>, <<2879, 2879, 1>>, <<2881, 2884, 1>>, <<2893, 2893, 1>>, <<2901, 2902, 1>>,
       <<2914, 2915, 1>>, <<2946, 2946, 1>>, <<3008, 3008, 1>>, <<3021, 3021, 1>>, <<3072, 3072, 1>>,
       <<3076, 3076, 1>>, <<3132, 3132, 1>>, <<3134, 3136, 1>>, <<3142, 3144, 1>>, <<3146, 3149, 1>>,
       <<3157, 3158, 1>>, <<3170, 3171, 1>>, <<3201, 3201, 1>>, <<3260, 3260, 1>>, <<3263, 3263, 1>>,
       <<3270, 3270, 1>>, <<3276, 3277, 1>>, <<3298, 3299, 1>>, <<3328, 3329, 1>>, <<3387, 3388, 1>>,
       <<3393, 3396, 1>>, <<3405, 3405, 1>>, <<3426, 3427, 1>>, <<3457, 3457, 1>>, <<3530, 3530, 1>>,
       <<3538, 3540, 1>>, <<3542, 3542, 1>>, <<3633, 3633, 1>>, <<3636, 3642, 1>>, <<3654, 3662, 1>>,
       <<3761, 3761, 1>>, <<3764, 3772, 1>>, <<3782, 3782, 1>>, <<3784, 3789, 1>>, <<3864, 3865, 1>>,
       <<3893, 3893, 1>>, <<3895, 3895, 1>>, <<3897, 3897, 1>>, <<3953, 3966, 1>>, <<3968, 3972, 1>>,
       <<3974, 3975, 1>>, <<3981, 3991, 1>>, <<3993, 4028, 1>>, <<4038, 4038, 1>>, <<4141, 4144, 1>>,
       <<4146, 4151, 1>>, <<4153, 4154, 1>>, <<4157, 4158, 1>>, <<4184, 4185, 1>>, <<4190, 4192, 1>>,
       <<4209, 4212, 1>>, <<4226, 4226, 1>>, <<4229, 4230, 1>>, <<4237, 4237, 1>>, <<4253, 4253, 1>>,
       <<4348, 4348, 1>>, <<4957, 4959, 1>>, <<5906, 5908, 1>>, <<5938, 5939, 1>>, <<5970, 5971, 1>>,
       <<6002, 6003, 1>>, <<6068, 6069, 1>>, <<6071, 6077, 1>>, <<6086, 6086, 1>>, <<6089, 6099, 1>>,
       <<6103, 6103, 1>>, <<6109, 6109, 1>>, <<6155, 6159, 1>>, <<6211, 6211, 1>>, <<6277, 6278, 1>>,
       <<6313, 6313, 1>>, <<6432, 6434, 1>>, <<6439, 6440, 1>>, <<6450, 6450, 1>>, <<6457, 6459, 1>>,
       <<6679, 6680, 1>>, <<6683, 6683, 1>>, <<6742, 6742, 1>>, <<6744, 6750, 1>>, <<6752, 6752, 1>>,
       <<6754, 6754, 1>>, <<6757, 6764, 1>>, <<6771, 6780, 1>>, <<6783, 6783, 1>>, <<6823, 6823, 1>>,
       <<6832, 6862, 1>>, <<6912, 6915, 1>>, <<6964, 6964, 1>>, <<6966, 6970, 1>>, <<6972, 6972, 1>>,
       <<6978, 6978, 1>>, <<7019, 7027, 1>>, <<7040, 7041, 1>>, <<7074, 7077, 1>>, <<7080, 7081, 1>>,
       <<7083, 7085, 1>>, <<7142, 7142, 1>>, <<7144, 7145, 1>>, <<7149, 7149, 1>>, <<7151, 7153, 1>>,
       <<7212, 7219, 1>>, <<7222, 7223, 1>>, <<7288, 7293, 1>>, <<7376, 7378, 1>>, <<7380, 7392, 1>>,
       <<7394, 7400, 1>>, <<7405, 7405, 1>>, <<7412, 7412, 1>>, <<7416, 7417, 1>>, <<7468, 7530, 1>>,
       <<7544, 7544, 1>>, <<7579, 7679, 1>>, <<8125, 8125, 1>>, <<8127, 8129, 1>>, <<8141, 8143, 1>>,
       <<8157, 8159, 1>>, <<8173, 8175, 1>>, <<8189, 8190, 1>>, <<8203, 8207, 1>>, <<8216, 8217, 1>>,
       <<8228, 8228, 1>>, <<8231, 8231, 1>>, <<8234, 8238, 1>>, <<8288, 8292, 1>>, <<8294, 8303, 1>>,
       <<8305, 8305, 1>>, <<8319, 8319, 1>>, <<8336, 8348, 1>>, <<8400, 8432, 1>>, <<11388, 11389, 1>>,
       <<11503, 11505, 1>>, <<11631, 11631, 1>>, <<11647, 11647, 1>>, <<11744, 11775, 1>>, <<11823, 11823, 1>>,
       <<12293, 12293, 1>>, <<12330, 12333, 1>>, <<12337, 12341, 1>>, <<12347, 12347, 1>>, <<12441, 12446, 1>>,
       <<12540, 12542, 1>>, <<40981, 40981, 1>>, <<42232, 42237, 1>>, <<42508, 42508, 1>>, <<42607, 42610, 1>>,
       <<42612, 42621, 1>>, <<42623, 42623, 1>>, <<42652, 42655, 1>>, <<42736, 42737, 1>>, <<42752, 42785, 1>>,
       <<42864, 42864, 1>>, <<42888, 42890, 1>>, <<42994, 42996, 1>>, <<43000, 43001, 1>>, <<43010, 43010, 1>>,
       <<43014, 43014, 1>>, <<43019, 43019, 1>>, <<43045, 43046, 1>>, <<43052, 43052, 1>>, <<43204, 43205, 1>>,
       <<43232, 43249, 1>>, <<43263, 43263, 1>>, <<43302, 43309, 1>>, <<43335, 43345, 1>>, <<43392, 43394, 1>>,
       <<43443, 43443, 1>>, <<43446, 43449, 1>>, <<43452, 43453, 1>>, <<43471, 43471, 1>>, <<43493, 43494, 1>>,
       <<43561, 43566, 1>>, <<43569, 43570, 1>>, <<43573, 43574, 1>>, <<43587, 43587, 1>>, <<43596, 43596, 1>>,
       <<43632, 43632, 1>>, <<43644, 43644, 1>>, <<43696, 43696, 1>>, <<43698, 43700, 1>>, <<43703, 43704, 1>>,
       <<43710, 43711, 1>>, <<43713, 43713, 1>>, <<43741, 43741, 1>>, <<43756, 43757, 1>>, <<43763, 43764, 1>>,
       <<43766, 43766, 1>>, <<43867, 43871, 1>>, <<43881, 43883, 1>>, <<44005, 44005, 1>>, <<44008, 44008, 1>>,
       <<44013, 44013, 1>>, <<64286, 64286, 1>>, <<64434, 64450, 1>>, <<65024, 65039, 1>>, <<65043, 65043, 1>>,
       <<65056, 65071, 1>>, <<65106, 65106, 1>>, <<65109, 65109, 1>>, <<65279, 65279, 1>>, <<65287, 65287, 1>>,
       <<65294, 65294, 1>>, <<65306, 65306, 1>>, <<65342, 65342, 1>>, <<65344, 65344, 1>>, <<65392, 65392, 1>>,
       <<65438, 65439, 1>>, <<65507, 65507, 1>>, <<65529, 65531, 1>>, <<66045, 66045, 1>>, <<66272, 66272, 1>>,
       <<66422, 66426, 1>>, <<67456, 67461, 1>>, <<67463, 67504, 1>>, <<67506, 67514, 1>>, <<68097, 68099, 1>>,
       <<68101, 68102, 1>>, <<68108, 68111, 1>>, <<68152, 68154, 1>>, <<68159, 68159, 1>>, <<68325, 68326, 1>>,
       <<68900, 68903, 1>>, <<69291, 69292, 1>>, <<69446, 69456, 1>>, <<69506, 69509, 1>>, <<69633, 69633, 1>>,
       <<69688, 69702, 1>>, <<69744, 69744, 1>>, <<69747, 69748, 1>>, <<69759, 69761, 1>>, <<69811, 69814, 1>>,
       <<69817, 69818, 1>>, <<69821, 69821, 1>>, <<69826, 69826, 1>>, <<69837, 69837, 1>>, <<69888, 69890, 1>>,
       <<69927, 69931, 1>>, <<69933, 69940, 1>>, <<70003, 70003, 1>>, <<70016, 70017, 1>>, <<70070, 70078, 1>>,
       <<70089, 70092, 1>>, <<70095, 70095, 1>>, <<70191, 70193, 1>>, <<70196, 70196, 1>>, <<70198, 70199, 1>>,
       <<70206, 70206, 1>>, <<70367, 70367, 1>>, <<70371, 70378, 1>>, <<70400, 70401, 1>>, <<70459, 70460, 1>>,
       <<70464, 70464, 1>>, <<70502, 70508, 1>>, <<70512, 70516, 1>>, <<70712, 70719, 1>>, <<70722, 70724, 1>>,
       <<70726, 70726, 1>>, <<70750, 70750, 1>>, <<70835, 70840, 1>>, <<70842, 70842, 1>>, <<70847, 70848, 1>>,
       <<70850, 70851, 1>>, <<71090, 71093, 1>>, <<71100, 71101, 1>>, <<71103, 71104, 1>>, <<71132, 71133, 1>>,
       <<71219, 71226, 1>>, <<71229, 71229, 1>>, <<71231, 71232, 1>>, <<71339, 71339, 1>>, <<71341, 71341, 1>>,
       <<71344, 71349, 1>>, <<71351, 71351, 1>>, <<71453, 71455, 1>>, <<71458, 71461, 1>>, <<71463, 71467, 1>>,
       <<71727, 71735, 1>>, <<71737, 71738, 1>>, <<71995, 71996, 1>>, <<71998, 71998, 1>>, <<72003, 72003, 1>>,
       <<72148, 72151, 1>>, <<72154, 72155, 1>>, <<72160, 72160, 1>>, <<72193, 72202, 1>>, <<72243, 72248, 1>>,
       <<72251, 72254, 1>>, <<72263, 72263, 1>>, <<72273, 72278, 1>>, <<72281, 72283, 1>>, <<72330, 72342, 1>>,
       <<72344, 72345, 1>>, <<72752, 72758, 1>>, <<72760, 72765, 1>>, <<72767, 72767, 1>>, <<72850, 72871, 1>>,
       <<72874, 72880, 1>>, <<72882, 72883, 1>>, <<72885, 72886, 1>>, <<73009, 73014, 1>>, <<73018, 73018, 1>>,
       <<73020, 73021, 1>>, <<73023, 73029, 1>>, <<73031, 73031, 1>>, <<73104, 73105, 1>>, <<73109, 73109, 1>>,
       <<73111, 73111, 1>>, <<73459, 73460, 1>>, <<78896, 78904, 1>>, <<92912, 92916, 1>>, <<92976, 92982, 1>>,
       <<92992, 92995, 1>>, <<94031, 94031, 1>>, <<94095, 94111, 1>>, <<94176, 94177, 1>>, <<94179, 94180, 1>>,
       <<110576, 110579, 1>>, <<110581, 110587, 1>>, <<110589, 110590, 1>>, <<113821, 113822, 1>>, <<113824, 113827, 1>>,
       <<118528, 118573, 1>>, <<118576, 118598, 1>>, <<119143, 119145, 1>>, <<119155, 119170, 1>>, <<119173, 119179, 1>>,
       <<119210, 119213, 1>>, <<119362, 119364, 1>>, <<121344, 121398, 1>>, <<121403, 121452, 1>>, <<121461, 121461, 1>>,
       <<121476, 121476, 1>>, <<121499, 121503, 1>>, <<121505, 121519, 1>>, <<122880, 122886, 1>>, <<122888, 122904, 1>>,
       <<122907, 122913, 1>>, <<122915, 122916, 1>>, <<122918, 122922, 1>>, <<123184, 123197, 1>>, <<123566, 123566, 1>>,
       <<123628, 123631, 1>>, <<125136, 125142, 1>>, <<125252, 125259, 1>>, <<127995, 127999, 1>>, <<917505, 917505, 1>>,
       <<917536, 917631, 1>>, <<917760, 917999, 1>> >>

\* The characters that are cased and not case-ignorable.
Cased ==
    << <<65, 90, 1>>, <<97, 122, 1>>, <<170, 170, 1>>, <<181, 181, 1>>, <<186, 186, 1>>,
       <<192, 214, 1>>, <<216, 246, 1>>, <<248, 442, 1>>, <<444, 447, 1>>, <<452, 659, 1>>,
       <<661, 687, 1>>, <<880, 883, 1>>, <<886, 887, 1>>, <<891, 893, 1>>, <<895, 895, 1>>,
       <<902, 902, 1>>, <<904, 906, 1>>, <<908, 908, 1>>, <<910, 929, 1>>, <<931, 1013, 1>>,
       <<1015, 1153, 1>>, <<1162, 1327, 1>>, <<1329, 1366, 1>>, <<1376, 1416, 1>>, <<4256, 4293, 1>>,
       <<4295, 4295, 1>>, <<4301, 4301, 1>>, <<4304, 4346, 1>>, <<4349, 4351, 1>>, <<5024, 5109, 1>>,
       <<5112, 5117, 1>>, <<7296, 7304, 1>>, <<7312, 7354, 1>>, <<7357, 7359, 1>>, <<7424, 7467, 1>>,
       <<7531, 7543, 1>>, <<7545, 7578, 1>>, <<7680, 7957, 1>>, <<7960, 7965, 1>>, <<7968, 8005, 1>>,
       <<8008, 8013, 1>>, <<8016, 8023, 1>>, <<8025, 8025, 1>>, <<8027, 8027, 1>>, <<8029, 8029, 1>>,
       <<8031, 8061, 1>>, <<8064, 8116, 1>>, <<8118, 8124, 1>>, <<8126, 8126, 1>>, <<8130, 8132, 1>>,
       <<8134, 8140, 1>>, <<8144, 8147, 1>>, <<8150, 8155, 1>>, <<8160, 8172, 1>>, <<8178, 8180, 1>>,
       <<8182, 8188, 1>>, <<8450, 8450, 1>>, <<8455, 8455, 1>>, <<8458, 8467, 1>>, <<8469, 8469, 1>>,
       <<8473, 8477, 1>>, <<8484, 8484, 1>>, <<8486, 8486, 1>>, <<8488, 8488, 1>>, <<8490, 8493, 1>>,
       <<8495, 8500, 1>>, <<8505, 8505, 1>>, <<8508, 8511, 1>>, <<8517, 8521, 1>>, <<8526, 8526, 1>>,
       <<8544, 8575, 1>>, <<8579, 8580, 1>>, <<9398, 9449, 1>>, <<11264, 11387, 1>>, <<11390, 11492, 1>>,
       <<11499, 11502, 1>>, <<11506, 11507, 1>>, <<11520, 11557, 1>>, <<11559, 11559, 1>>, <<11565, 11565, 1>>,
       <<42560, 42605, 1>>, <<42624, 42651, 1>>, <<42786, 42863, 1>>, <<42865, 42887, 1>>, <<42891, 42894, 1>>,
       <<42896, 42954, 1>>, <<42960, 42961, 1>>, <<42963, 42963, 1>>, <<42965, 42969, 1>>, <<42997, 42998, 1>>,
       <<43002, 43002, 1>>, <<43824, 43866, 1>>, <<43872, 43880, 1>>, <<43888, 43967, 1>>, <<64256, 64262, 1>>,
       <<64275, 64279, 1>>, <<65313, 65338, 1>>, <<65345, 65370, 1>>, <<66560, 66639, 1>>, <<66736, 66771, 1>>,
       <<66776, 66811, 1>>, <<66928, 66938, 1>>, <<66940, 66954, 1>>, <<66956, 66962, 1>>, <<66964, 66965, 1>>,
       <<66967, 66977, 1>>, <<66979, 66993, 1>>, <<66995, 67001, 1>>, <<67003, 67004, 1>>, <<68736, 68786, 1>>,
       <<68800, 68850, 1>>, <<71840, 71903, 1>>, <<93760, 93823, 1>>, <<119808, 119892, 1>>, <<119894, 119964, 1>>,
       <<119966, 119967, 1>>, <<119970, 119970, 1>>, <<119973, 119974, 1>>, <<119977, 119980, 1>>, <<119982, 119993, 1>>,
       <<119995, 119995, 1>>, <<119997, 120003, 1>>, <<120005, 120069, 1>>, <<120071, 120074, 1>>, <<120077, 120084, 1>>,
       <<120086, 120092, 1>>, <<120094, 120121, 1>>, <<120123, 120126, 1>>, <<120128, 120132, 1>>, <<120134, 120134, 1>>,
       <<120138, 120144, 1>>, <<120146, 120485, 1>>, <<120488, 120512, 1>>, <<120514, 120538, 1>>, <<120540, 120570, 1>>,
       <<120572, 120596, 1>>, <<120598, 120628, 1>>, <<120630, 120654, 1>>, <<120656, 120686, 1>>, <<120688, 120712, 1>>,
       <<120714, 120744, 1>>, <<120746, 120770, 1>>, <<120772, 120779, 1>>, <<122624, 122633, 1>>, <<122635, 122654, 1>>,
       <<125184, 125251, 1>>, <<127280, 127305, 1>>, <<127312, 127337, 1>>, <<127344, 127369, 1>> >>

\* The decimal digits: each entry is the digits of value 0 to 9 of one script.
DecimalRuns ==
    << <<48, 57, 1>>, <<1632, 1641, 1>>, <<1776, 1785, 1>>, <<1984, 1993, 1>>, <<2406, 2415, 1>>,
       <<2534, 2543, 1>>, <<2662, 2671, 1>>, <<2790, 2799, 1>>, <<2918, 2927, 1>>, <<3046, 3055, 1>>,
       <<3174, 3183, 1>>, <<3302, 3311, 1>>, <<3430, 3439, 1>>, <<3558, 3567, 1>>, <<3664, 3673, 1>>,
       <<3792, 3801, 1>>, <<3872, 3881, 1>>, <<4160, 4169, 1>>, <<4240, 4249, 1>>, <<6112, 6121, 1>>,
       <<6160, 6169, 1>>, <<6470, 6479, 1>>, <<6608, 6617, 1>>, <<6784, 6793, 1>>, <<6800, 6809, 1>>,
       <<6992, 7001, 1>>, <<7088, 7097, 1>>, <<7232, 7241, 1>>, <<7248, 7257, 1>>, <<42528, 42537, 1>>,
       <<43216, 43225, 1>>, <<43264, 43273, 1>>, <<43472, 43481, 1>>, <<43504, 43513, 1>>, <<43600, 43609, 1>>,
       <<44016, 44025, 1>>, <<65296, 65305, 1>>, <<66720, 66729, 1>>, <<68912, 68921, 1>>, <<69734, 69743, 1>>,
       <<69872, 69881, 1>>, <<69942, 69951, 1>>, <<70096, 70105, 1>>, <<70384, 70393, 1>>, <<70736, 70745, 1>>,
       <<70864, 70873, 1>>, <<71248, 71257, 1>>, <<71360, 71369, 1>>, <<71472, 71481, 1>>, <<71904, 71913, 1>>,
       <<72016, 72025, 1>>, <<72784, 72793, 1>>, <<73040, 73049, 1>>, <<73120, 73129, 1>>, <<92768, 92777, 1>>,
       <<92864, 92873, 1>>, <<93008, 93017, 1>>, <<120782, 120791, 1>>, <<120792, 120801, 1>>, <<120802, 120811, 1>>,
       <<120812, 120821, 1>>, <<120822, 120831, 1>>, <<123200, 123209, 1>>, <<123632, 123641, 1>>, <<125264, 125273, 1>>,
       <<130032, 130041, 1>> >>

\* The alphanumeric characters and the underscore.
WordRanges ==
    << <<48, 57, 1>>, <<65, 90, 1>>, <<95, 95, 1>>, <<97, 122, 1>>, <<170, 170, 1>>,
       <<178, 179, 1>>, <<181, 181, 1>>, <<185, 186, 1>>, <<188, 190, 1>>, <<192, 214, 1>>,
       <<216, 246, 1>>, <<248, 705, 1>>, <<710, 721, 1>>, <<736, 740, 1>>, <<748, 748, 1>>,
       <<750, 750, 1>>, <<880, 884, 1>>, <<886, 887, 1>>, <<890, 893, 1>>, <<895, 895, 1>>,
       <<902, 902, 1>>, <<904, 906, 1>>, <<908, 908, 1>>, <<910, 929, 1>>, <<931, 1013, 1>>,
       <<1015, 1153, 1>>, <<1162, 1327, 1>>, <<1329, 1366, 1>>, <<1369, 1369, 1>>, <<1376, 1416, 1>>,
       <<1488, 1514, 1>>, <<1519, 1522, 1>>, <<1568, 1610, 1>>, <<1632, 1641, 1>>, <<1646, 1647, 1>>,
       <<1649, 1747, 1>>, <<1749, 1749, 1>>, <<1765, 1766, 1>>, <<1774, 1788, 1>>, <<1791, 1791, 1>>,
       <<1808, 1808, 1>>, <<1810, 1839, 1>>, <<1869, 1957, 1>>, <<1969, 1969, 1>>, <<1984, 2026, 1>>,
       <<2036, 2037, 1>>, <<2042, 2042, 1>>, <<2048, 2069, 1>>, <<2074, 2074, 1>>, <<2084, 2084, 1>>,
       <<2088, 2088, 1>>, <<2112, 2136, 1>>, <<2144, 2154, 1>>, <<2160, 2183, 1>>, <<2185, 2190, 1>>,
       <<2208, 2249, 1>>, <<2308, 2361, 1>>, <<2365, 2365, 1>>, <<2384, 2384, 1>>, <<2392, 2401, 1>>,
       <<2406, 2415, 1>>, <<2417, 2432, 1>>, <<2437, 2444, 1>>, <<2447, 2448, 1>>, <<2451, 2472, 1>>,
       <<2474, 2480, 1>>, <<2482, 2482, 1>>, <<2486, 2489, 1>>, <<2493, 2493, 1>>, <<2510, 2510, 1>>,
       <<2524, 2525, 1>>, <<2527, 2529, 1>>, <<2534, 2545, 1>>, <<2548, 2553, 1>>, <<2556, 2556, 1>>,
       <<2565, 2570, 1>>, <<2575, 2576, 1>>, <<2579, 2600, 1>>, <<2602, 2608, 1>>, <<2610, 2611, 1>>,
       <<2613, 2614, 1>>, <<2616, 2617, 1>>, <<2649, 2652, 1>>, <<2654, 2654, 1>>, <<2662, 2671, 1>>,
       <<2674, 2676, 1>>, <<2693, 2701, 1>>, <<2703, 2705, 1>>, <<2707, 2728, 1>>, <<2730, 2736, 1>>,
       <<2738, 2739, 1>>, <<2741, 2745, 1>>, <<2749, 2749, 1>>, <<2768, 2768, 1>>, <<2784, 2785, 1>>,
       <<2790, 2799, 1>>, <<2809, 2809, 1>>, <<2821, 2828, 1>>, <<2831, 2832, 1>>, <<2835, 2856, 1>>,
       <<2858, 2864, 1>>, <<2866, 2867, 1>>, <<2869, 2873, 1>>, <<2877, 2877, 1>>, <<2908, 2909, 1>>,
       <<2911, 2913, 1>>, <<2918, 2927, 1>>, <<2929, 2935, 1>>, <<2947, 2947, 1>>, <<2949, 2954, 1>>,
       <<2958, 2960, 1>>, <<2962, 2965, 1>>, <<2969, 2970, 1>>, <<2972, 2972, 1>>, <<2974, 2975, 1>>,
       <<2979, 2980, 1>>, <<2984, 2986, 1>>, <<2990, 3001, 1>>, <<3024, 3024, 1>>, <<3046, 3058, 1>>,
       <<3077, 3084, 1>>, <<3086, 3088, 1>>, <<3090, 3112, 1>>, <<3114, 3129, 1>>, <<3133, 3133, 1>>,
       <<3160, 3162, 1>>, <<3165, 3165, 1>>, <<3168, 3169, 1>>, <<3174, 3183, 1>>, <<3192, 3198, 1>>,
       <<3200, 3200, 1>>, <<3205, 3212, 1>>, <<3214, 3216, 1>>, <<3218, 3240, 1>>, <<3242, 3251, 1>>,
       <<3253, 3257, 1>>, <<3261, 3261, 1>>, <<3293, 3294, 1>>, <<3296, 3297, 1>>, <<3302, 3311, 1>>,
       <<3313, 3314, 1>>, <<3332, 3340, 1>>, <<3342, 3344, 1>>, <<3346, 3386, 1>>, <<3389, 3389, 1>>,
       <<3406, 3406, 1>>, <<3412, 3414, 1>>, <<3416, 3425, 1>>, <<3430, 3448, 1>>, <<3450, 3455, 1>>,
       <<3461, 3478, 1>>, <<3482, 3505, 1>>, <<3507, 3515, 1>>, <<3517, 3517, 1>>, <<3520, 3526, 1>>,
       <<3558, 3567, 1>>, <<3585, 3632, 1>>, <<3634, 3635, 1>>, <<3648, 3654, 1>>, <<3664, 3673, 1>>,
       <<3713, 3714, 1>>, <<3716, 3716, 1>>, <<3718, 3722, 1>>, <<3724, 3747, 1>>, <<3749, 3749, 1>>,
       <<3751, 3760, 1>>, <<3762, 3763, 1>>, <<3773, 3773, 1>>, <<3776, 3780, 1>>, <<3782, 3782, 1>>,
       <<3792, 3801, 1>>, <<3804, 3807, 1>>, <<3840, 3840, 1>>, <<3872, 3891, 1>>, <<3904, 3911, 1>>,
       <<3913, 3948, 1>>, <<3976, 3980, 1>>, <<4096, 4138, 1>>, <<4159, 4169, 1>>, <<4176, 4181, 1>>,
       <<4186, 4189, 1>>, <<4193, 4193, 1>>, <<4197, 4198, 1>>, <<4206, 4208, 1>>, <<4213, 4225, 1>>,
       <<4238, 4238, 1>>, <<4240, 4249, 1>>, <<4256, 4293, 1>>, <<4295, 4295, 1>>, <<4301, 4301, 1>>,
       <<4304, 4346, 1>>, <<4348, 4680, 1>>, <<4682, 4685, 1>>, <<4688, 4694, 1>>, <<4696, 4696, 1>>,
       <<4698, 4701, 1>>, <<4704, 4744, 1>>, <<4746, 4749, 1>>, <<4752, 4784, 1>>, <<4786, 4789, 1>>,
       <<4792, 4798, 1>>, <<4800, 4800, 1>>, <<4802, 4805, 1>>, <<4808, 4822, 1>>, <<4824, 4880, 1>>,
       <<4882, 4885, 1>>, <<4888, 4954, 1>>, <<4969, 4988, 1>>, <<4992, 5007, 1>>, <<5024, 5109, 1>>,
       <<5112, 5117, 1>>, <<5121, 5740, 1>>, <<5743, 5759, 1>>, <<5761, 5786, 1>>, <<5792, 5866, 1>>,
       <<5870, 5880, 1>>, <<5888, 5905, 1>>, <<5919, 5937, 1>>, <<5952, 5969, 1>>, <<5984, 5996, 1>>,
       <<5998, 6000, 1>>, <<6016, 6067, 1>>, <<6103, 6103, 1>>, <<6108, 6108, 1>>, <<6112, 6121, 1>>,
       <<6128, 6137, 1>>, <<6160, 6169, 1>>, <<6176, 6264, 1>>, <<6272, 6276, 1>>, <<6279, 6312, 1>>,
       <<6314, 6314, 1>>, <<6320, 6389, 1>>, <<6400, 6430, 1>>, <<6470, 6509, 1>>, <<6512, 6516, 1>>,
       <<6528, 6571, 1>>, <<6576, 6601, 1>>, <<6608, 6618, 1>>, <<6656, 6678, 1>>, <<6688, 6740, 1>>,
       <<6784, 6793, 1>>, <<6800, 6809, 1>>, <<6823, 6823, 1>>, <<6917, 6963, 1>>, <<6981, 6988, 1>>,
       <<6992, 7001, 1>>, <<7043, 7072, 1>>, <<7086, 7141, 1>>, <<7168, 7203, 1>>, <<7232, 7241, 1>>,
       <<7245, 7293, 1>>, <<7296, 7304, 1>>, <<7312, 7354, 1>>, <<7357, 7359, 1>>, <<7401, 7404, 1>>,
       <<7406, 7411, 1>>, <<7413, 7414, 1>>, <<7418, 7418, 1>>, <<7424, 7615, 1>>, <<7680, 7957, 1>>,
       <<7960, 7965, 1>>, <<7968, 8005, 1>>, <<8008, 8013, 1>>, <<8016, 8023, 1>>, <<8025, 8025, 1>>,
       <<8027, 8027, 1>>, <<8029, 8029, 1>>, <<8031, 8061, 1>>, <<8064, 8116, 1>>, <<8118, 8124, 1>>,
       <<8126, 8126, 1>>, <<8130, 8132, 1>>, <<8134, 8140, 1>>, <<8144, 8147, 1>>, <<8150, 8155, 1>>,
       <<8160, 8172, 1>>, <<8178, 8180, 1>>, <<8182, 8188, 1>>, <<8304, 8305, 1>>, <<8308, 8313, 1>>,
       <<8319, 8329, 1>>, <<8336, 8348, 1>>, <<8450, 8450, 1>>, <<8455, 8455, 1>>, <<8458, 8467, 1>>,
       <<8469, 8469, 1>>, <<8473, 8477, 1>>, <<8484, 8484, 1>>, <<8486, 8486, 1>>, <<8488, 8488, 1>>,
       <<8490, 8493, 1>>, <<8495, 8505, 1>>, <<8508, 8511, 1>>, <<8517, 8521, 1>>, <<8526, 8526, 1>>,
       <<8528, 8585, 1>>, <<9312, 9371, 1>>, <<9450, 9471, 1>>, <<10102, 10131, 1>>, <<11264, 11492, 1>>,
       <<11499, 11502, 1>>, <<11506, 11507, 1>>, <<11517, 11517, 1>>, <<11520, 11557, 1>>, <<11559, 11559, 1>>,
       <<11565, 11565, 1>>, <<11568, 11623, 1>>, <<11631, 11631, 1>>, <<11648, 11670, 1>>, <<11680, 11686, 1>>,
       <<11688, 11694, 1>>, <<11696, 11702, 1>>, <<11704, 11710, 1>>, <<11712, 11718, 1>>, <<11720, 11726, 1>>,
       <<11728, 11734, 1>>, <<11736, 11742, 1>>, <<11823, 11823, 1>>, <<12293, 12295, 1>>, <<12321, 12329, 1>>,
       <<12337, 12341, 1>>, <<12344, 12348, 1>>, <<12353, 12438, 1>>, <<12445, 12447, 1>>, <<12449, 12538, 1>>,
       <<12540, 12543, 1>>, <<12549, 12591, 1>>, <<12593, 12686, 1>>, <<12690, 12693, 1>>, <<12704, 12735, 1>>,
       <<12784, 12799, 1>>, <<12832, 12841, 1>>, <<12872, 12879, 1>>, <<12881, 12895, 1>>, <<12928, 12937, 1>>,
       <<12977, 12991, 1>>, <<13312, 19903, 1>>, <<19968, 42124, 1>>, <<42192, 42237, 1>>, <<42240, 42508, 1>>,
       <<42512, 42539, 1>>, <<42560, 42606, 1>>, <<42623, 42653, 1>>, <<42656, 42735, 1>>, <<42775, 42783, 1>>,
       <<42786, 42888, 1>>, <<42891, 42954, 1>>, <<42960, 42961, 1>>, <<42963, 42963, 1>>, <<42965, 42969, 1>>,
       <<42994, 43009, 1>>, <<43011, 43013, 1>>, <<43015, 43018, 1>>, <<43020, 43042, 1>>, <<43056, 43061, 1>>,
       <<43072, 43123, 1>>, <<43138, 43187, 1>>, <<43216, 43225, 1>>, <<43250, 43255, 1>>, <<43259, 43259, 1>>,
       <<43261, 43262, 1>>, <<43264, 43301, 1>>, <<43312, 43334, 1>>, <<43360, 43388, 1>>, <<43396, 43442, 1>>,
       <<43471, 43481, 1>>, <<43488, 43492, 1>>, <<43494, 43518, 1>>, <<43520, 43560, 1>>, <<43584, 43586, 1>>,
       <<43588, 43595, 1>>, <<43600, 43609, 1>>, <<43616, 43638, 1>>, <<43642, 43642, 1>>, <<43646, 43695, 1>>,
       <<43697, 43697, 1>>, <<43701, 43702, 1>>, <<43705, 43709, 1>>, <<43712, 43712, 1>>, <<43714, 43714, 1>>,
       <<43739, 43741, 1>>, <<43744, 43754, 1>>, <<43762, 43764, 1>>, <<43777, 43782, 1>>, <<43785, 43790, 1>>,
       <<43793, 43798, 1>>, <<43808, 43814, 1>>, <<43816, 43822, 1>>, <<43824, 43866, 1>>, <<43868, 43881, 1>>,
       <<43888, 44002, 1>>, <<44016, 44025, 1>>, <<44032, 55203, 1>>, <<55216, 55238, 1>>, <<55243, 55291, 1>>,
       <<63744, 64109, 1>>, <<64112, 64217, 1>>, <<64256, 64262, 1>>, <<64275, 64279, 1>>, <<64285, 64285, 1>>,
       <<64287, 64296, 1>>, <<64298, 64310, 1>>, <<64312, 64316, 1>>, <<64318, 64318, 1>>, <<64320, 64321, 1>>,
       <<64323, 64324, 1>>, <<64326, 64433, 1>>, <<64467, 64829, 1>>, <<64848, 64911, 1>>, <<64914, 64967, 1>>,
       <<65008, 65019, 1>>, <<65136, 65140, 1>>, <<65142, 65276, 1>>, <<65296, 65305, 1>>, <<65313, 65338, 1>>,
       <<65345, 65370, 1>>, <<65382, 65470, 1>>, <<65474, 65479, 1>>, <<65482, 65487, 1>>, <<65490, 65495, 1>>,
       <<65498, 65500, 1>>, <<65536, 65547, 1>>, <<65549, 65574, 1>>, <<65576, 65594, 1>>, <<65596, 65597, 1>>,
       <<65599, 65613, 1>>, <<65616, 65629, 1>>, <<65664, 65786, 1>>, <<65799, 65843, 1>>, <<65856, 65912, 1>>,
       <<65930, 65931, 1>>, <<66176, 66204, 1>>, <<66208, 66256, 1>>, <<66273, 66299, 1>>, <<66304, 66339, 1>>,
       <<66349, 66378, 1>>, <<66384, 66421, 1>>, <<66432, 66461, 1>>, <<66464, 66499, 1>>, <<66504, 66511, 1>>,
       <<66513, 66517, 1>>, <<66560, 66717, 1>>, <<66720, 66729, 1>>, <<66736, 66771, 1>>, <<66776, 66811, 1>>,
       <<66816, 66855, 1>>, <<66864, 66915, 1>>, <<66928, 66938, 1>>, <<66940, 66954, 1>>, <<66956, 66962, 1>>,
       <<66964, 66965, 1>>, <<66967, 66977, 1>>, <<66979, 66993, 1>>, <<66995, 67001, 1>>, <<67003, 67004, 1>>,
       <<67072, 67382, 1>>, <<67392, 67413, 1>>, <<67424, 67431, 1>>, <<67456, 67461, 1>>, <<67463, 67504, 1>>,
       <<67506, 67514, 1>>, <<67584, 67589, 1>>, <<67592, 67592, 1>>, <<67594, 67637, 1>>, <<67639, 67640, 1>>,
       <<67644, 67644, 1>>, <<67647, 67669, 1>>, <<67672, 67702, 1>>, <<67705, 67742, 1>>, <<67751, 67759, 1>>,
       <<67808, 67826, 1>>, <<67828, 67829, 1>>, <<67835, 67867, 1>>, <<67872, 67897, 1>>, <<67968, 68023, 1>>,
       <<68028, 68047, 1>>, <<68050, 68096, 1>>, <<68112, 68115, 1>>, <<68117, 68119, 1>>, <<68121, 68149, 1>>,
       <<68160, 68168, 1>>, <<68192, 68222, 1>>, <<68224, 68255, 1>>, <<68288, 68295, 1>>, <<68297, 68324, 1>>,
       <<68331, 68335, 1>>, <<68352, 68405, 1>>, <<68416, 68437, 1>>, <<68440, 68466, 1>>, <<68472, 68497, 1>>,
       <<68521, 68527, 1>>, <<68608, 68680, 1>>, <<68736, 68786, 1>>, <<68800, 68850, 1>>, <<68858, 68899, 1>>,
       <<68912, 68921, 1>>, <<69216, 69246, 1>>, <<69248, 69289, 1>>, <<69296, 69297, 1>>, <<69376, 69415, 1>>,
       <<69424, 69445, 1>>, <<69457, 69460, 1>>, <<69488, 69505, 1>>, <<69552, 69579, 1>>, <<69600, 69622, 1>>,
       <<69635, 69687, 1>>, <<69714, 69743, 1>>, <<69745, 69746, 1>>, <<69749, 69749, 1>>, <<69763, 69807, 1>>,
       <<69840, 69864, 1>>, <<69872, 69881, 1>>, <<69891, 69926, 1>>, <<69942, 69951, 1>>, <<69956, 69956, 1>>,
       <<69959, 69959, 1>>, <<69968, 70002, 1>>, <<70006, 70006, 1>>, <<70019, 70066, 1>>, <<70081, 70084, 1>>,
       <<70096, 70106, 1>>, <<70108, 70108, 1>>, <<70113, 70132, 1>>, <<70144, 70161, 1>>, <<70163, 70187, 1>>,
       <<70272, 70278, 1>>, <<70280, 70280, 1>>, <<70282, 70285, 1>>, <<70287, 70301, 1>>, <<70303, 70312, 1>>,
       <<70320, 70366, 1>>, <<70384, 70393, 1>>, <<70405, 70412, 1>>, <<70415, 70416, 1>>, <<70419, 70440, 1>>,
       <<70442, 70448, 1>>, <<70450, 70451, 1>>, <<70453, 70457, 1>>, <<70461, 70461, 1>>, <<70480, 70480, 1>>,
       <<70493, 70497, 1>>, <<70656, 70708, 1>>, <<70727, 70730, 1>>, <<70736, 70745, 1>>, <<70751, 70753, 1>>,
       <<70784, 70831, 1>>, <<70852, 70853, 1>>, <<70855, 70855, 1>>, <<70864, 70873, 1>>, <<71040, 71086, 1>>,
       <<71128, 71131, 1>>, <<71168, 71215, 1>>, <<71236, 71236, 1>>, <<71248, 71257, 1>>, <<71296, 71338, 1>>,
       <<71352, 71352, 1>>, <<71360, 71369, 1>>, <<71424, 71450, 1>>, <<71472, 71483, 1>>, <<71488, 71494, 1>>,
       <<71680, 71723, 1>>, <<71840, 71922, 1>>, <<71935, 71942, 1>>, <<71945, 71945, 1>>, <<71948, 71955, 1>>,
       <<71957, 71958, 1>>, <<71960, 71983, 1>>, <<71999, 71999, 1>>, <<72001, 72001, 1>>, <<72016, 72025, 1>>,
       <<72096, 72103, 1>>, <<72106, 72144, 1>>, <<72161, 72161, 1>>, <<72163, 72163, 1>>, <<72192, 72192, 1>>,
       <<72203, 72242, 1>>, <<72250, 72250, 1>>, <<72272, 72272, 1>>, <<72284, 72329, 1>>, <<72349, 72349, 1>>,
       <<72368, 72440, 1>>, <<72704, 72712, 1>>, <<72714, 72750, 1>>, <<72768, 72768, 1>>, <<72784, 72812, 1>>,
       <<72818, 72847, 1>>, <<72960, 72966, 1>>, <<72968, 72969, 1>>, <<72971, 73008, 1>>, <<73030, 73030, 1>>,
       <<73040, 73049, 1>>, <<73056, 73061, 1>>, <<73063, 73064, 1>>, <<73066, 73097, 1>>, <<73112, 73112, 1>>,
       <<73120, 73129, 1>>, <<73440, 73458, 1>>, <<73648, 73648, 1>>, <<73664, 73684, 1>>, <<73728, 74649, 1>>,
       <<74752, 74862, 1>>, <<74880, 75075, 1>>, <<77712, 77808, 1>>, <<77824, 78894, 1>>, <<82944, 83526, 1>>,
       <<92160, 92728, 1>>, <<92736, 92766, 1>>, <<92768, 92777, 1>>, <<92784, 92862, 1>>, <<92864, 92873, 1>>,
       <<92880, 92909, 1>>, <<92928, 92975, 1>>, <<92992, 92995, 1>>, <<93008, 93017, 1>>, <<93019, 93025, 1>>,
       <<93027, 93047, 1>>, <<93053, 93071, 1>>, <<93760, 93846, 1>>, <<93952, 94026, 1>>, <<94032, 94032, 1>>,
       <<94099, 94111, 1>>, <<94176, 94177, 1>>, <<94179, 94179, 1>>, <<94208, 100343, 1>>, <<100352, 101589, 1>>,
       <<101632, 101640, 1>>, <<110576, 110579, 1>>, <<110581, 110587, 1>>, <<110589, 110590, 1>>, <<110592, 110882, 1>>,
       <<110928, 110930, 1>>, <<110948, 110951, 1>>, <<110960, 111355, 1>>, <<113664, 113770, 1>>, <<113776, 113788, 1>>,
       <<113792, 113800, 1>>, <<113808, 113817, 1>>, <<119520, 119539, 1>>, <<119648, 119672, 1>>, <<119808, 119892, 1>>,
       <<119894, 119964, 1>>, <<119966, 119967, 1>>, <<119970, 119970, 1>>, <<119973, 119974, 1>>, <<119977, 119980, 1>>,
       <<119982, 119993, 1>>, <<119995, 119995, 1>>, <<119997, 120003, 1>>, <<120005, 120069, 1>>, <<120071, 120074, 1>>,
       <<120077, 120084, 1>>, <<120086, 120092, 1>>, <<120094, 120121, 1>>, <<120123, 120126, 1>>, <<120128, 120132, 1>>,
       <<120134, 120134, 1>>, <<120138, 120144, 1>>, <<120146, 120485, 1>>, <<120488, 120512, 1>>, <<120514, 120538, 1>>,
       <<120540, 120570, 1>>, <<120572, 120596, 1>>, <<120598, 120628, 1>>, <<120630, 120654, 1>>, <<120656, 120686, 1>>,
       <<120688, 120712, 1>>, <<120714, 120744, 1>>, <<120746, 120770, 1>>, <<120772, 120779, 1>>, <<120782, 120831, 1>>,
       <<122624, 122654, 1>>, <<123136, 123180, 1>>, <<123191, 123197, 1>>, <<123200, 123209, 1>>, <<123214, 123214, 1>>,
       <<123536, 123565, 1>>, <<123584, 123627, 1>>, <<123632, 123641, 1>>, <<124896, 124902, 1>>, <<124904, 124907, 1>>,
       <<124909, 124910, 1>>, <<124912, 124926, 1>>, <<124928, 125124, 1>>, <<125127, 125135, 1>>, <<125184, 125251, 1>>,
       <<125259, 125259, 1>>, <<125264, 125273, 1>>, <<126065, 126123, 1>>, <<126125, 126127, 1>>, <<126129, 126132, 1>>,
       <<126209, 126253, 1>>, <<126255, 126269, 1>>, <<126464, 126467, 1>>, <<126469, 126495, 1>>, <<126497, 126498, 1>>,
       <<126500, 126500, 1>>, <<126503, 126503, 1>>, <<126505, 126514, 1>>, <<126516, 126519, 1>>, <<126521, 126521, 1>>,
       <<126523, 126523, 1>>, <<126530, 126530, 1>>, <<126535, 126535, 1>>, <<126537, 126537, 1>>, <<126539, 126539, 1>>,
       <<126541, 126543, 1>>, <<126545, 126546, 1>>, <<126548, 126548, 1>>, <<126551, 126551, 1>>, <<126553, 126553, 1>>,
       <<126555, 126555, 1>>, <<126557, 126557, 1>>, <<126559, 126559, 1>>, <<126561, 126562, 1>>, <<126564, 126564, 1>>,
       <<126567, 126570, 1>>, <<126572, 126578, 1>>, <<126580, 126583, 1>>, <<126585, 126588, 1>>, <<126590, 126590, 1>>,
       <<126592, 126601, 1>>, <<126603, 126619, 1>>, <<126625, 126627, 1>>, <<126629, 126633, 1>>, <<126635, 126651, 1>>,
       <<127232, 127244, 1>>, <<130032, 130041, 1>>, <<131072, 173791, 1>>, <<173824, 177976, 1>>, <<177984, 178205, 1>>,
       <<178208, 183969, 1>>, <<183984, 191456, 1>>, <<194560, 195101, 1>>, <<196608, 201546, 1>> >>

\* re._casefix._EXTRA_CASES: for a lower-case character, the other lower-case
\* characters with the same upper-case form (fourth component).
ExtraCases ==
    << <<105, 105, 1, {305}>>, <<115, 115, 1, {383}>>, <<181, 181, 1, {956}>>,
       <<305, 305, 1, {105}>>, <<383, 383, 1, {115}>>, <<837, 837, 1, {953, 8126}>>,
       <<912, 912, 1, {8147}>>, <<944, 944, 1, {8163}>>, <<946, 946, 1, {976}>>,
       <<949, 949, 1, {1013}>>, <<952, 952, 1, {977}>>, <<953, 953, 1, {837, 8126}>>,
       <<954, 954, 1, {1008}>>, <<956, 956, 1, {181}>>, <<960, 960, 1, {982}>>,
       <<961, 961, 1, {1009}>>, <<962, 962, 1, {963}>>, <<963, 963, 1, {962}>>,
       <<966, 966, 1, {981}>>, <<976, 976, 1, {946}>>, <<977, 977, 1, {952}>>,
       <<981, 981, 1, {966}>>, <<982, 982, 1, {960}>>, <<1008, 1008, 1, {954}>>,
       <<1009, 1009, 1, {961}>>, <<1013, 1013, 1, {949}>>, <<1074, 1074, 1, {7296}>>,
       <<1076, 1076, 1, {7297}>>, <<1086, 1086, 1, {7298}>>, <<1089, 1089, 1, {7299}>>,
       <<1090, 1090, 1, {7300, 7301}>>, <<1098, 1098, 1, {7302}>>, <<1123, 1123, 1, {7303}>>,
       <<7296, 7296, 1, {1074}>>, <<7297, 7297, 1, {1076}>>, <<7298, 7298, 1, {1086}>>,
       <<7299, 7299, 1, {1089}>>, <<7300, 7300, 1, {1090, 7301}>>, <<7301, 7301, 1, {1090, 7300}>>,
       <<7302, 7302, 1, {1098}>>, <<7303, 7303, 1, {1123}>>, <<7304, 7304, 1, {42571}>>,
       <<7777, 7777, 1, {7835}>>, <<7835, 7835, 1, {7777}>>, <<8126, 8126, 1, {837, 953}>>,
       <<8147, 8147, 1, {912}>>, <<8163, 8163, 1, {944}>>, <<42571, 42571, 1, {7304}>>,
       <<64261, 64261, 1, {64262}>>, <<64262, 64262, 1, {64261}>> >>

\* The one-character lower-case form of a character (what re.IGNORECASE uses).
tolower(c) ==
    LET i == entry_of(LowerMap, c)
    IN  IF i = 0 THEN c ELSE c + LowerMap[i][4]

\* I with dot above, whose lower-case form has two characters: i and the
\* combining dot above.
DottedCapitalI == 304

CombiningDotAbove == 775

\* Capital sigma, whose lower-case form depends on its place in the word.
CapitalSigma == 931

FinalSigma == 962

\* str.lower() of a text of one character.
lower_char(c) ==
    IF c = DottedCapitalI THEN <<ord("i"), CombiningDotAbove>> ELSE <<tolower(c)>>

\* The upper-case form of an ASCII letter of a file name.
upper_char(c) ==
    IF c \in Range(LowerLetters) THEN c - (ord("a") - ord("A")) ELSE c

\* The capital sigma at index i of s is final: before it, skipping the
\* case-ignorable characters, comes a cased character, and after it, skipping
\* the case-ignorable characters, comes none.
final_sigma(s, i) ==
    LET before == {j \in 1..(i - 1) : ~holds(CaseIgnorable, s[j])}
        after  == {j \in (i + 1)..Len(s) : ~holds(CaseIgnorable, s[j])}
    IN  /\ before # {}
        /\ holds(Cased, s[CHOOSE j \in before : \A k \in before : k <= j])
        /\ \/ after = {}
           \/ ~holds(Cased, s[CHOOSE j \in after : \A k \in after : j <= k])

\* What str.lower() puts for the character at index i of s.
lower_at(s, i) ==
    IF s[i] = CapitalSigma /\ final_sigma(s, i) THEN <<FinalSigma>>
    ELSE lower_char(s[i])

RECURSIVE lower_from(_, _)
lower_from(s, i) ==
    IF i > Len(s) THEN << >> ELSE lower_at(s, i) \o lower_from(s, i + 1)

\* str.lower() of a text of ASCII: only the letters A..Z change.
ascii_lower(c) ==
    IF UpperLetters[1] <= c /\ c <= UpperLetters[Len(UpperLetters)]
    THEN c + (LowerLetters[1] - UpperLetters[1])
    ELSE c

\* str.lower(): a text with no character beyond U+007F is lowered letter by
\* letter, any other by the tables.
lower(s) ==
    IF \A i \in DOMAIN s : s[i] < 128
    THEN [i \in DOMAIN s |-> ascii_lower(s[i])]
    ELSE lower_from(s, 1)

\* The whitespace of ASCII that int() skips: U+0009..U+000D and the space.
AsciiSpaces == {9, 10, 11, 12, 13, 32}

\* The separators U+001C..U+001F, whitespace for str.strip() but not for int().
Separators == {28, 29, 30, 31}

\* The whitespace beyond ASCII: U+0085, U+00A0, U+1680, U+2000..U+200A, U+2028,
\* U+2029, U+202F, U+205F and U+3000.
WideSpaces ==
    {133, 160, 5760,
     8192, 8193, 8194, 8195, 8196, 8197, 8198, 8199, 8200, 8201, 8202,
     8232, 8233, 8239, 8287, 12288}

\* Characters str.strip() treats as whitespace.
StrSpaces == AsciiSpaces \cup Separators \cup WideSpaces

\* Characters int() treats as whitespace.
IntSpaces == AsciiSpaces \cup WideSpaces

is_space(c) == c \in StrSpaces

\* Drop the leading and trailing characters that are in spaces.
strip_chars(s, spaces) ==
    LET keep == {i \in DOMAIN s : s[i] \notin spaces}
    IN  IF keep = {} THEN << >>
        ELSE LET first == CHOOSE i \in keep : \A j \in keep : i <= j
                 last  == CHOOSE i \in keep : \A j \in keep : j <= i
             IN  SubSeq(s, first, last)

\* str.strip(): drop leading and trailing whitespace.
strip(s) == strip_chars(s, StrSpaces)

is_decimal(c) == holds(DecimalRuns, c)

\* \w of the re module for a str pattern: alphanumeric characters and the
\* underscore.
is_word(c) == holds(WordRanges, c)

\* Characters with an upper-case or a lower-case form other than themselves.
iscased(c) == tolower(c) # c \/ holds(UpperMapped, c)

\* The lower-case characters re.IGNORECASE takes for lo.
extra_cases(lo) ==
    LET i == entry_of(ExtraCases, lo)
    IN  IF i = 0 THEN {} ELSE ExtraCases[i][4]

\* A literal character of a re.IGNORECASE pattern matches the character ch.
matches_nocase(literal_char, ch) ==
    IF iscased(literal_char)
    THEN LET lo == tolower(literal_char)
         IN  tolower(ch) \in {lo} \cup extra_cases(lo)
    ELSE ch = literal_char

(***************************************************************************)
(* int(text): optional surrounding whitespace, an optional sign, decimal   *)
(* digits with single underscores allowed between digits, and no more      *)
(* digits than sys.get_int_max_str_digits().  ValueError is the result     *)
(* with ok = FALSE.                                                        *)
(***************************************************************************)
\* The default of sys.get_int_max_str_digits().
MaxStrDigits == 4300

digit_value(c) == c - DecimalRuns[entry_of(DecimalRuns, c)][1]

RECURSIVE digits_value(_, _)
digits_value(body, acc) ==
    IF body = << >> THEN acc
    ELSE IF Head(body) = Underscore THEN digits_value(Tail(body), acc)
    ELSE digits_value(Tail(body), acc * Len(Digits) + digit_value(Head(body)))

\* The digits from the first one that is not a zero: the zeros before it add
\* nothing to the value.
significant(body) ==
    LET nonzero == {i \in DOMAIN body :
                       body[i] # Underscore /\ digit_value(body[i]) # 0}
    IN  IF nonzero = {} THEN << >>
        ELSE SubSeq(body, CHOOSE i \in nonzero : \A j \in nonzero : i <= j, Len(body))

int_parse(text) ==
    LET t      == strip_chars(text, IntSpaces)
        signed == t # << >> /\ t[1] \in {PlusSign, MinusSign}
        body   == IF signed THEN Tail(t) ELSE t
        wellformed ==
            /\ body # << >>
            /\ \A i \in DOMAIN body : is_decimal(body[i]) \/ body[i] = Underscore
            /\ body[1] # Underscore
            /\ body[Len(body)] # Underscore
            /\ \A i \in 1..(Len(body) - 1) :
                   ~(body[i] = Underscore /\ body[i + 1] = Underscore)
            /\ Cardinality({i \in DOMAIN body : body[i] # Underscore}) <= MaxStrDigits
    IN  IF ~wellformed THEN [ok |-> FALSE, val |-> 0]
        ELSE [ok  |-> TRUE,
              val |-> IF signed /\ t[1] = MinusSign
                      THEN 0 - digits_value(significant(body), 0)
                      ELSE digits_value(significant(body), 0)]

\* str(n) for an int, as csv.writer renders a count.
RECURSIVE nat_str(_)
nat_str(n) ==
    IF n < Len(Digits) THEN <<Digits[n + 1]>>
    ELSE nat_str(n \div Len(Digits)) \o <<Digits[(n % Len(Digits)) + 1]>>

int_str(n) == IF n < 0 THEN <<MinusSign>> \o nat_str(0 - n) ELSE nat_str(n)

(***************************************************************************)
(* Regular expressions.  load_mime_mapping compiles two shapes, both with  *)
(* re.IGNORECASE over an escaped literal:                                  *)
(*   kind "word"   : \b<literal>\b                                         *)
(*   kind "suffix" : .*<literal>$                                          *)
(* pattern.search(text) looks for a match starting anywhere in the text.   *)
(***************************************************************************)
\* The literal occurs in text right after offset p, ignoring case.
occurs_nocase(literal, text, p) ==
    /\ p + Len(literal) <= Len(text)
    /\ \A k \in DOMAIN literal : matches_nocase(literal[k], text[p + k])

\* The literal occurs in text right after offset p, case-sensitively.
occurs(literal, text, p) ==
    /\ p + Len(literal) <= Len(text)
    /\ \A k \in DOMAIN literal : text[p + k] = literal[k]

word_at(text, k) == k \in DOMAIN text /\ is_word(text[k])

\* \b at offset p: exactly one of the two neighbouring positions is a word character.
boundary(text, p) == word_at(text, p) # word_at(text, p + 1)

\* $ at offset p: the end of the text, or just before a final newline.
at_end(text, p) ==
    \/ p = Len(text)
    \/ p = Len(text) - 1 /\ text[Len(text)] = LineFeed

search(pattern, text) ==
    \E p \in 0..Len(text) :
        /\ occurs_nocase(pattern.literal, text, p)
        /\ IF pattern.kind = "word"
           THEN boundary(text, p) /\ boundary(text, p + Len(pattern.literal))
           ELSE at_end(text, p + Len(pattern.literal))


(***************************************************************************)
(* The module-level tables (ext_to_mime, mime_patterns, valid_mimes).      *)
(* A dict is the sequence of its items in insertion order.                 *)
(***************************************************************************)
has_key(d, k) == \E i \in DOMAIN d : d[i].key = k

key_index(d, k) == CHOOSE i \in DOMAIN d : d[i].key = k

dict_get(d, k) == d[key_index(d, k)].val

\* d[k] = v: an existing key keeps its place, a new key goes last.
dict_set(d, k, v) ==
    IF has_key(d, k)
    THEN [d EXCEPT ![key_index(d, k)] = [key |-> k, val |-> v]]
    ELSE Append(d, [key |-> k, val |-> v])

\* The three patterns one mapping row appends to its mime's list.
row_patterns(ext, mime) ==
    << [kind |-> "word",   literal |-> ext],
       [kind |-> "suffix", literal |-> ext],
       [kind |-> "word",   literal |-> mime] >>

\* One iteration of the loop of load_mime_mapping.
load_row(tables, row) ==
    LET ext  == lower(strip(row.extension))
        mime == lower(strip(row.mime_type))
        old  == IF has_key(tables.mime_patterns, mime)
                THEN dict_get(tables.mime_patterns, mime)
                ELSE << >>
    IN  [ext_to_mime   |-> dict_set(tables.ext_to_mime, ext, mime),
         valid_mimes   |-> tables.valid_mimes \cup {mime},
         mime_patterns |-> dict_set(tables.mime_patterns, mime,
                                    old \o row_patterns(ext, mime))]

RECURSIVE load_mime_mapping(_, _)
load_mime_mapping(tables, rows) ==
    IF rows = << >> THEN tables
    ELSE load_mime_mapping(load_row(tables, Head(rows)), Tail(rows))

\* The tables of a freshly started process (lines 7-9).
EmptyTables == [ext_to_mime |-> << >>, mime_patterns |-> << >>, valid_mimes |-> {}]

normalize_entry(entry) == lower(entry)

\* match_mime: the first mime, in dict order, one of whose patterns is found.
match_mime(mime_patterns, entry) ==
    LET hits == {i \in DOMAIN mime_patterns :
                    \E j \in DOMAIN mime_patterns[i].val :
                        search(mime_patterns[i].val[j], entry)}
    IN  IF hits = {} THEN None
        ELSE mime_patterns[CHOOSE i \in hits : \A k \in hits : i <= k].key

(***************************************************************************)
(* File names                                                              *)
(***************************************************************************)
ProdPrefix == Text(<<"p", "r", "o", "d", "-">>)

CountsSuffix ==
    Text(<<"-", "m", "i", "m", "e", "-", "t", "y", "p", "e", "s", "-",
      "c", "o", "u", "n", "t", "s", ".", "c", "s", "v">>)

\* re.search(r'prod-(.*?)-mime-types-counts\.csv', filename): the leftmost
\* "prod-", then the shortest run of non-newline characters before the suffix.
extract_env(filename) ==
    LET starts == {p \in 0..Len(filename) : occurs(ProdPrefix, filename, p)}
        ends   == {q \in 0..Len(filename) : occurs(CountsSuffix, filename, q)}
        cands  == {c \in starts \X ends :
                    /\ c[2] >= c[1] + Len(ProdPrefix)
                    /\ \A k \in (c[1] + Len(ProdPrefix) + 1)..c[2] : filename[k] # LineFeed}
    IN  IF cands = {} THEN None
        ELSE LET best == CHOOSE c \in cands :
                            \A o \in cands :
                                c[1] < o[1] \/ (c[1] = o[1] /\ c[2] <= o[2])
             IN  SubSeq(filename, best[1] + Len(ProdPrefix) + 1, best[2])

\* The directory is the set of its files, each a name and the rows csv.reader
\* yields for it: Path(".").iterdir() yields the entries in arbitrary order.

\* find_file: the values find_file can return.  It returns the name of the
\* first entry iterdir yields whose name equals the pattern ignoring case, which
\* can be any such entry, and None when there is none.
find_file(directory, pattern) ==
    LET wanted == lower(pattern)
        hits   == {f \in directory : lower(f.name) = wanted}
    IN  IF hits = {} THEN {None} ELSE {f.name : f \in hits}

\* open(name) for reading: the rows of the file of that name.
read_rows(directory, name) == (CHOOSE f \in directory : f.name = name).rows

\* open(name, 'a') ... : the rows are added to a file that exists.
write_file_append(directory, name, rows) ==
    IF \E f \in directory : f.name = name
    THEN {IF f.name = name THEN [name |-> name, rows |-> f.rows \o rows] ELSE f :
            f \in directory}
    ELSE directory \cup {[name |-> name, rows |-> rows]}

\* open(name, 'w') ... : a file of exactly that name is replaced whole, and
\* otherwise the file is created.
write_file(directory, name, rows) ==
    {f \in directory : f.name # name} \cup {[name |-> name, rows |-> rows]}

(***************************************************************************)
(* sum_counts and the row loop of process_counts                           *)
(***************************************************************************)
\* next(reader, None): the rows left after the first one, if there is one.
skip_header(rows) == IF rows = << >> THEN << >> ELSE Tail(rows)

\* int(row[1]) under try/except (IndexError, ValueError).
row_count(row) ==
    IF Len(row) < 2 THEN [ok |-> FALSE, val |-> 0] ELSE int_parse(row[2])

RECURSIVE sum_rows(_, _)
sum_rows(rows, total) ==
    IF rows = << >> THEN total
    ELSE sum_rows(Tail(rows),
                  IF row_count(Head(rows)).ok
                  THEN total + row_count(Head(rows)).val
                  ELSE total)

\* sum_counts without line 157: the first row is summed like the others.
sum_counts_keeps_header(rows) == sum_rows(rows, 0)

\* sum_counts(filename), given the rows csv.reader yields for the file.
sum_counts(rows) == sum_rows(skip_header(rows), 0)

\* defaultdict(int): d[k] += n
dict_add(d, k, n) ==
    dict_set(d, k, (IF has_key(d, k) THEN dict_get(d, k) ELSE 0) + n)

\* defaultdict(list): d[k].append(x)
dict_append(d, k, x) ==
    dict_set(d, k, Append(IF has_key(d, k) THEN dict_get(d, k) ELSE << >>, x))

\* The locals of process_counts before the loop (lines 58-66), with the
\* module-level tables the loop body has in scope.
new_locals(tables) ==
    [raised                   |-> FALSE,
     tables                   |-> tables,
     valid_mime_aggregate     |-> << >>,
     invalid_mime_aggregate   |-> << >>,
     potential_mime_aggregate |-> << >>,
     valid_entry_map          |-> << >>,
     invalid_entry_map        |-> << >>,
     potential_entry_map      |-> << >>,
     valid_mime_sum           |-> 0,
     invalid_mime_sum         |-> 0,
     possible_mime_sum        |-> 0]

\* classify that remembers a fuzzy-matched entry as a valid mime for later rows.
classify_learns(loc, entry, count) ==
    LET matched_mime == match_mime(loc.tables.mime_patterns, normalize_entry(entry))
    IN  IF entry \in loc.tables.valid_mimes
        THEN [loc EXCEPT
                !.valid_mime_aggregate = dict_add(@, entry, count),
                !.valid_entry_map      = dict_append(@, entry, entry),
                !.valid_mime_sum       = @ + count]
        ELSE IF truthy(matched_mime)
        THEN [loc EXCEPT
                !.potential_mime_aggregate = dict_add(@, matched_mime, count),
                !.potential_entry_map      = dict_append(@, matched_mime, entry),
                !.possible_mime_sum        = @ + count,
                !.tables.valid_mimes       = @ \cup {entry}]
        ELSE [loc EXCEPT
                !.invalid_mime_aggregate = dict_add(@, entry, count),
                !.invalid_entry_map      = dict_append(@, entry, entry),
                !.invalid_mime_sum       = @ + count]

\* The if / elif / else of lines 83-97 for an entry with an integer count.
classify(loc, entry, count) ==
    LET matched_mime == match_mime(loc.tables.mime_patterns, normalize_entry(entry))
    IN  IF entry \in loc.tables.valid_mimes
        THEN [loc EXCEPT
                !.valid_mime_aggregate = dict_add(@, entry, count),
                !.valid_entry_map      = dict_append(@, entry, entry),
                !.valid_mime_sum       = @ + count]
        ELSE IF truthy(matched_mime)
        THEN [loc EXCEPT
                !.potential_mime_aggregate = dict_add(@, matched_mime, count),
                !.potential_entry_map      = dict_append(@, matched_mime, entry),
                !.possible_mime_sum        = @ + count]
        ELSE [loc EXCEPT
                !.invalid_mime_aggregate = dict_add(@, entry, count),
                !.invalid_entry_map      = dict_append(@, entry, entry),
                !.invalid_mime_sum       = @ + count]

\* One iteration of the loop of lines 73-97.  row[0] is read outside the try:
\* on a row without fields its IndexError leaves process_counts (raised).
process_row(loc, row) ==
    IF Len(row) = 0 THEN [loc EXCEPT !.raised = TRUE]
    ELSE IF ~row_count(row).ok THEN loc
    ELSE classify(loc, row[1], row_count(row).val)

RECURSIVE process_rows(_, _)
process_rows(loc, rows) ==
    IF rows = << >> \/ loc.raised THEN loc
    ELSE process_rows(process_row(loc, Head(rows)), Tail(rows))

\* Lines 69-97: the whole read of the input file.
scan_counts(tables, rows) == process_rows(new_locals(tables), skip_header(rows))

(***************************************************************************)
(* The three reports, as the rows csv.writer is given                      *)
(***************************************************************************)
RECURSIVE join(_, _)
join(sep, items) ==
    IF items = << >> THEN << >>
    ELSE IF Len(items) = 1 THEN items[1]
    ELSE items[1] \o sep \o join(sep, Tail(items))

CommaSpace == Text(<<",", " ">>)

MatchedHeader ==
    << Text(<<"M", "a", "t", "c", "h", "e", "d", " ", "M", "i", "m", "e", " ",
         "T", "y", "p", "e", "s">>),
       Text(<<"C", "o", "u", "n", "t">>),
       Text(<<"P", "o", "t", "e", "n", "t", "i", "a", "l", " ", "M", "i", "m", "e", " ",
         "T", "y", "p", "e", "s">>) >>

ValidHeader ==
    << Text(<<"V", "a", "l", "i", "d", " ", "M", "i", "m", "e", " ", "T", "y", "p", "e", "s">>),
       Text(<<"C", "o", "u", "n", "t">>) >>

InvalidHeader ==
    << Text(<<"I", "n", "v", "a", "l", "i", "d", " ", "M", "i", "m", "e", " ",
         "T", "y", "p", "e", "s">>),
       Text(<<"C", "o", "u", "n", "t">>) >>

TotalCount == Text(<<"T", "o", "t", "a", "l", " ", "C", "o", "u", "n", "t">>)

TotalValidCount ==
    Text(<<"T", "o", "t", "a", "l", " ", "V", "a", "l", "i", "d", " ", "C", "o", "u", "n", "t">>)

TotalInvalidCount ==
    Text(<<"T", "o", "t", "a", "l", " ", "I", "n", "v", "a", "l", "i", "d", " ",
      "C", "o", "u", "n", "t">>)

\* Rows written by write_potential_mime_types.
potential_report(aggregate, entry_map, total) ==
    <<MatchedHeader>>
    \o [i \in DOMAIN aggregate |->
           <<aggregate[i].key, int_str(aggregate[i].val),
             join(CommaSpace, dict_get(entry_map, aggregate[i].key))>>]
    \o << <<TotalCount, int_str(total), << >> >> >>

\* Rows written by write_valid_mime_types / write_invalid_mime_types.
count_report(header, aggregate, label, total) ==
    <<header>>
    \o [i \in DOMAIN aggregate |-> <<aggregate[i].key, int_str(aggregate[i].val)>>]
    \o << <<label, int_str(total)>> >>

(***************************************************************************)
(* main: the three (input, outputs) tuples, lines 168-187                  *)
(***************************************************************************)
files_envs ==
    << [infile |->
            Text(<<"p", "r", "o", "d", "-", "u", "s", "-", "o", "n", "l", "y", "-",
              "m", "i", "m", "e", "-", "t", "y", "p", "e", "s", "-",
              "c", "o", "u", "n", "t", "s", ".", "c", "s", "v">>),
        potential_outfile |->
            Text(<<"m", "i", "m", "e", "-", "t", "y", "p", "e", "-",
              "m", "a", "p", "p", "i", "n", "g", "-", "U", "S", ".", "c", "s", "v">>),
        valid_outfile |->
            Text(<<"v", "a", "l", "i", "d", "-", "m", "i", "m", "e", "-", "t", "y", "p", "e", "-",
              "m", "a", "p", "p", "i", "n", "g", "-", "U", "S", ".", "c", "s", "v">>),
        invalid_outfile |->
            Text(<<"i", "n", "v", "a", "l", "i", "d", "-", "m", "i", "m", "e", "-",
              "t", "y", "p", "e", "-",
              "m", "a", "p", "p", "i", "n", "g", "-", "U", "S", ".", "c", "s", "v">>)],
       [infile |->
            Text(<<"p", "r", "o", "d", "-", "e", "u", "-", "o", "n", "l", "y", "-",
              "m", "i", "m", "e", "-", "t", "y", "p", "e", "s", "-",
              "c", "o", "u", "n", "t", "s", ".", "c", "s", "v">>),
        potential_outfile |->
            Text(<<"m", "i", "m", "e", "-", "t", "y", "p", "e", "-",
              "m", "a", "p", "p", "i", "n", "g", "-", "E", "U", ".", "c", "s", "v">>),
        valid_outfile |->
            Text(<<"v", "a", "l", "i", "d", "-", "m", "i", "m", "e", "-", "t", "y", "p", "e", "-",
              "m", "a", "p", "p", "i", "n", "g", "-", "E", "U", ".", "c", "s", "v">>),
        invalid_outfile |->
            Text(<<"i", "n", "v", "a", "l", "i", "d", "-", "m", "i", "m", "e", "-",
              "t", "y", "p", "e", "-",
              "m", "a", "p", "p", "i", "n", "g", "-", "E", "U", ".", "c", "s", "v">>)],
       [infile |->
            Text(<<"p", "r", "o", "d", "-", "g", "l", "o", "b", "a", "l", "-",
              "m", "i", "m", "e", "-", "t", "y", "p", "e", "s", "-",
              "c", "o", "u", "n", "t", "s", ".", "c", "s", "v">>),
        potential_outfile |->
            Text(<<"m", "i", "m", "e", "-", "t", "y", "p", "e", "-",
              "m", "a", "p", "p", "i", "n", "g", "-",
              "G", "l", "o", "b", "a", "l", ".", "c", "s", "v">>),
        valid_outfile |->
            Text(<<"v", "a", "l", "i", "d", "-", "m", "i", "m", "e", "-", "t", "y", "p", "e", "-",
              "m", "a", "p", "p", "i", "n", "g", "-",
              "G", "l", "o", "b", "a", "l", ".", "c", "s", "v">>),
        invalid_outfile |->
            Text(<<"i", "n", "v", "a", "l", "i", "d", "-", "m", "i", "m", "e", "-",
              "t", "y", "p", "e", "-",
              "m", "a", "p", "p", "i", "n", "g", "-",
              "G", "l", "o", "b", "a", "l", ".", "c", "s", "v">>)] >>

(***************************************************************************)
(* State                                                                   *)
(***************************************************************************)
VARIABLES
    mapping,        \* rows of mimeTypes.csv as csv.DictReader yields them
    directory,      \* the working directory: the set of count files and reports
    ext_to_mime,    \* module-level dict, line 7
    mime_patterns,  \* module-level dict, line 8
    valid_mimes,    \* module-level set, line 9
    pc,             \* where main is
    env_index,      \* which tuple of files_envs the loop of main is at
    actual_file,    \* main's local: the result of find_file
    total_count,    \* main's local
    counted,        \* the value sum_counts returned for actual_file
    env,            \* process_counts' local: the result of extract_env
    locals,         \* process_counts' aggregates, entry maps and sums
    stdout,         \* the lines printed by this run
    written,        \* the report files opened for writing by this run, in order
    run,            \* "first" or "second" invocation of the tool
    first_run       \* the directory and output the first invocation left

vars ==
    <<mapping, directory, ext_to_mime, mime_patterns, valid_mimes, pc, env_index,
      actual_file, total_count, counted, env, locals, stdout, written, run, first_run>>

Tables ==
    [ext_to_mime |-> ext_to_mime, mime_patterns |-> mime_patterns,
     valid_mimes |-> valid_mimes]

Line(msg, arg, n) == [msg |-> msg, arg |-> arg, n |-> n]

(***************************************************************************)
(* Inputs                                                                  *)
(***************************************************************************)
\* Bounds of the enumerated inputs.
MaxRows == 3

SeqsUpTo(pool, n) == UNION {[1..k -> pool] : k \in 0..n}

\* Rows of mimeTypes.csv.  The second needs strip() and lower() and has the
\* extension of the first under another mime type; the third has an empty
\* mime_type column.
MapB == [extension |-> Text(<<"b">>),      mime_type |-> Text(<<"a", "/", "b">>)]

MapBc == [extension |-> Text(<<" ", "B">>), mime_type |-> Text(<<"C", " ">>)]

MapZ == [extension |-> Text(<<"z">>),      mime_type |-> << >>]

MapZc == [extension |-> Text(<<"z">>),      mime_type |-> Text(<<"c">>)]

MapX == [extension |-> Text(<<"x">>),      mime_type |-> Text(<<"a", "/", "b">>)]

\* An extension that ends in U+001F, which strip() removes, under a mime type
\* whose lower-case form has one character more (I with dot above).
MapS == [extension |-> Text(<<"S">>) \o <<31>>, mime_type |-> <<DottedCapitalI>>]

\* Mapping tables: empty, one row, two mime types sharing an extension in both
\* orders, an empty mime type ahead of a plain row, rows of two mime types
\* interleaved, and a row with characters beyond ASCII.
Mappings ==
    { << >>,
      <<MapB>>,
      <<MapB, MapBc>>,
      <<MapBc, MapB>>,
      <<MapZ, MapB>>,
      <<MapB, MapZc, MapX>>,
      <<MapS, MapB>> }

\* Rows of a count file: a blank line, a row with no count field, rows with
\* counts int() accepts ("2", " 1_0", "-1", "4", and an Arabic-Indic three
\* U+0663 before a no-break space U+00A0) and one it rejects ("x").  The entry
\* of the last row is a long s U+017F, which lower() leaves alone and \bs\b
\* finds.
RowPool ==
    { << >>,
      << Text(<<"z">>) >>,
      << Text(<<"a", "/", "b">>), Text(<<"2">>) >>,
      << Text(<<"x", "B">>), Text(<<" ", "1", "_", "0">>) >>,
      << Text(<<"c">>), Text(<<"x">>) >>,
      << Text(<<"z">>), Text(<<"-", "1">>), Text(<<"y">>) >>,
      << Text(<<"z", " ", "x">>), Text(<<"4">>) >>,
      << <<383>>, <<1635, 160>> >> }

CountFiles == SeqsUpTo(RowPool, MaxRows)

\* The inputs of the whole-program runs.
HeaderRow == << Text(<<"m", "i", "m", "e">>), Text(<<"c", "o", "u", "n", "t">>) >>

MainMappings == { <<MapB>>, <<MapZ, MapBc>> }

MainFiles ==
    { << >>,
      << HeaderRow, << Text(<<"a", "/", "b">>), Text(<<"2">>) >>, << Text(<<"x", "B">>), Text(<<"3">>) >>,
         << Text(<<"z">>), Text(<<"1">>) >> >>,
      << HeaderRow, << >>, << Text(<<"z">>), Text(<<"4">>) >> >> }

\* The name of a count file on disk: the expected name, or the expected name
\* with one letter in upper case (find_file ignores case).
UpperAt == {1, 6}

NameVariants(name) ==
    {name} \cup {[name EXCEPT ![p] = upper_char(@)] : p \in UpperAt}

\* What the working directory holds for one environment: nothing, or one file.
DirEntries(i) ==
    {{}} \cup
    {{[name |-> n, rows |-> r]} : n \in NameVariants(files_envs[i].infile),
                                  r \in MainFiles}

NoLocals == new_locals(EmptyTables)

NoFirstRun == [directory |-> {}, stdout |-> << >>, pc |-> "none"]

(***************************************************************************)
(* Initial states                                                          *)
(***************************************************************************)
\* The tool is started in a directory holding mimeTypes.csv and, for each
\* environment, at most one count file.
Init ==
    /\ mapping \in MainMappings
    /\ \E us \in DirEntries(1), eu \in DirEntries(2), gl \in DirEntries(3) :
           directory = us \cup eu \cup gl
    /\ ext_to_mime = << >>
    /\ mime_patterns = << >>
    /\ valid_mimes = {}
    /\ pc = "load"
    /\ env_index = 1
    /\ actual_file = None
    /\ total_count = 0
    /\ counted = 0
    /\ env = None
    /\ locals = NoLocals
    /\ stdout = << >>
    /\ written = << >>
    /\ run = "first"
    /\ first_run = NoFirstRun

\* What a turn of the loop of main leaves for an empty count file: the three
\* reports with no key and a total of 0, the three lines printed, and the
\* names of the reports in the order they were opened.
EmptyReports(i) ==
    { [name |-> files_envs[i].potential_outfile,
       rows |-> potential_report(<< >>, << >>, 0)],
      [name |-> files_envs[i].valid_outfile,
       rows |-> count_report(ValidHeader, << >>, TotalValidCount, 0)],
      [name |-> files_envs[i].invalid_outfile,
       rows |-> count_report(InvalidHeader, << >>, TotalInvalidCount, 0)] }

EmptyLines(i) ==
    << Line("possible", extract_env(files_envs[i].infile), 0),
       Line("valid", extract_env(files_envs[i].infile), 0),
       Line("invalid", extract_env(files_envs[i].infile), 0) >>

EmptyWritten(i) ==
    << files_envs[i].potential_outfile, files_envs[i].valid_outfile,
       files_envs[i].invalid_outfile >>

\* What the turns of the first two tuples left behind them.
EarlierFiles ==
    { [name |-> files_envs[1].infile, rows |-> << >>],
      [name |-> files_envs[2].infile, rows |-> << >>] }
    \cup EmptyReports(1) \cup EmptyReports(2)

EarlierLines == EmptyLines(1) \o EmptyLines(2)

EarlierWritten == EmptyWritten(1) \o EmptyWritten(2)

EarlierEnv == extract_env(files_envs[2].infile)

\* main is at line 191 for the last tuple of files_envs, in a directory that
\* held the three count files under their expected names, the first two
\* empty: the turns of the first two tuples are behind it.  One file against
\* one mapping.
InitCounts ==
    /\ mapping \in Mappings
    /\ LET loaded == load_mime_mapping(EmptyTables, mapping)
       IN  /\ ext_to_mime = loaded.ext_to_mime
           /\ mime_patterns = loaded.mime_patterns
           /\ valid_mimes = loaded.valid_mimes
           /\ locals = scan_counts(loaded, << >>)
    /\ \E rows \in CountFiles :
           directory =
               EarlierFiles
               \cup { [name |-> files_envs[Len(files_envs)].infile, rows |-> rows] }
    /\ pc = "find"
    /\ env_index = Len(files_envs)
    /\ actual_file = files_envs[2].infile
    /\ total_count = 0
    /\ counted = 0
    /\ env = EarlierEnv
    /\ stdout = EarlierLines
    /\ written = EarlierWritten
    /\ run = "first"
    /\ first_run = NoFirstRun

(***************************************************************************)
(* Steps of main                                                           *)
(***************************************************************************)
\* Line 166: load_mime_mapping("mimeTypes.csv"); lines 168-189.
LoadMapping ==
    /\ pc = "load"
    /\ LET t == load_mime_mapping(Tables, mapping)
       IN  /\ ext_to_mime' = t.ext_to_mime
           /\ mime_patterns' = t.mime_patterns
           /\ valid_mimes' = t.valid_mimes
    /\ total_count' = 0
    /\ env_index' = 1
    /\ pc' = "find"
    /\ UNCHANGED <<mapping, directory, actual_file, counted, env, locals, stdout,
                   written, run, first_run>>

\* Line 191: actual_file = find_file(infile)
FindFile ==
    /\ pc = "find"
    /\ actual_file' \in find_file(directory, files_envs[env_index].infile)
    /\ pc' = "sum"
    /\ UNCHANGED <<mapping, directory, ext_to_mime, mime_patterns, valid_mimes,
                   env_index, total_count, counted, env, locals, stdout, written,
                   run, first_run>>

\* Line 192: total_count += sum_counts(actual_file).  open(None) raises
\* TypeError, which nothing catches: the run ends there.
SumCounts ==
    /\ pc = "sum"
    /\ IF actual_file = None
       THEN /\ pc' = "aborted"
            /\ UNCHANGED <<counted, total_count>>
       ELSE /\ counted' = sum_counts(read_rows(directory, actual_file))
            /\ total_count' = total_count + counted'
            /\ pc' = "branch"
    /\ UNCHANGED <<mapping, directory, ext_to_mime, mime_patterns, valid_mimes,
                   env_index, actual_file, env, locals, stdout, written, run,
                   first_run>>

\* The loop of main moves to the next tuple, or to line 198 after the last.
next_pc(i) == IF i < Len(files_envs) THEN "find" ELSE "total"

next_index(i) == IF i < Len(files_envs) THEN i + 1 ELSE i

\* Lines 193-196: enter process_counts (lines 57-66), or report the missing file.
Branch ==
    /\ pc = "branch"
    /\ IF truthy(actual_file)
       THEN /\ env' = extract_env(actual_file)
            /\ locals' = new_locals(Tables)
            /\ pc' = "scan"
            /\ UNCHANGED <<stdout, env_index>>
       ELSE /\ stdout' = Append(stdout, Line("File not found",
                                             files_envs[env_index].infile, 0))
            /\ pc' = next_pc(env_index)
            /\ env_index' = next_index(env_index)
            /\ UNCHANGED <<env, locals>>
    /\ UNCHANGED <<mapping, directory, ext_to_mime, mime_patterns, valid_mimes,
                   actual_file, total_count, counted, written, run, first_run>>

\* The exception swallowed: the reports are written after a failed read.
after_scan_swallowed(loc) == "write_potential"

\* Where control goes after the loop of lines 73-97: to line 99, or, when row[0]
\* raised, out of process_counts and out of main, which catch nothing.
after_scan(loc) == IF loc.raised THEN "aborted" ELSE "write_potential"

\* Lines 69-97: read the whole input file.
Scan ==
    /\ pc = "scan"
    /\ LET loc == scan_counts(Tables, read_rows(directory, actual_file))
       IN  /\ locals' = loc
           /\ ext_to_mime' = loc.tables.ext_to_mime
           /\ mime_patterns' = loc.tables.mime_patterns
           /\ valid_mimes' = loc.tables.valid_mimes
           /\ pc' = after_scan(loc)
    /\ UNCHANGED <<mapping, directory, env_index, actual_file, total_count, counted,
                   env, stdout, written, run, first_run>>

\* Lines 99-100 and 104-117: write_potential_mime_types
WritePotential ==
    /\ pc = "write_potential"
    /\ directory' = write_file(directory, files_envs[env_index].potential_outfile,
                               potential_report(locals.potential_mime_aggregate,
                                                locals.potential_entry_map,
                                                locals.possible_mime_sum))
    /\ written' = Append(written, files_envs[env_index].potential_outfile)
    /\ stdout' = Append(stdout, Line("possible", env, locals.possible_mime_sum))
    /\ pc' = "write_valid"
    /\ UNCHANGED <<mapping, ext_to_mime, mime_patterns, valid_mimes, env_index,
                   actual_file, total_count, counted, env, locals, run, first_run>>

\* Lines 101 and 134-145: write_valid_mime_types
WriteValid ==
    /\ pc = "write_valid"
    /\ directory' = write_file(directory, files_envs[env_index].valid_outfile,
                               count_report(ValidHeader, locals.valid_mime_aggregate,
                                            TotalValidCount, locals.valid_mime_sum))
    /\ written' = Append(written, files_envs[env_index].valid_outfile)
    /\ stdout' = Append(stdout, Line("valid", env, locals.valid_mime_sum))
    /\ pc' = "write_invalid"
    /\ UNCHANGED <<mapping, ext_to_mime, mime_patterns, valid_mimes, env_index,
                   actual_file, total_count, counted, env, locals, run, first_run>>

\* Lines 102 and 120-131: write_invalid_mime_types, then back to the loop of main
WriteInvalid ==
    /\ pc = "write_invalid"
    /\ directory' = write_file(directory, files_envs[env_index].invalid_outfile,
                               count_report(InvalidHeader, locals.invalid_mime_aggregate,
                                            TotalInvalidCount, locals.invalid_mime_sum))
    /\ written' = Append(written, files_envs[env_index].invalid_outfile)
    /\ stdout' = Append(stdout, Line("invalid", env, locals.invalid_mime_sum))
    /\ pc' = next_pc(env_index)
    /\ env_index' = next_index(env_index)
    /\ UNCHANGED <<mapping, ext_to_mime, mime_patterns, valid_mimes,
                   actual_file, total_count, counted, env, locals, run, first_run>>

\* Line 198: print the total across all files
PrintTotal ==
    /\ pc = "total"
    /\ stdout' = Append(stdout, Line("Total count across all files", << >>, total_count))
    /\ pc' = "done"
    /\ UNCHANGED <<mapping, directory, ext_to_mime, mime_patterns, valid_mimes,
                   env_index, actual_file, total_count, counted, env, locals,
                   written, run, first_run>>

\* The tool is started again in the directory the first run left: a new
\* process, so lines 7-9 run again, with the same mimeTypes.csv and count files.
Rerun ==
    /\ pc \in {"done", "aborted"}
    /\ run = "first"
    /\ first_run' = [directory |-> directory, stdout |-> stdout, pc |-> pc]
    /\ run' = "second"
    /\ ext_to_mime' = << >>
    /\ mime_patterns' = << >>
    /\ valid_mimes' = {}
    /\ pc' = "load"
    /\ env_index' = 1
    /\ actual_file' = None
    /\ total_count' = 0
    /\ counted' = 0
    /\ env' = None
    /\ locals' = NoLocals
    /\ stdout' = << >>
    /\ written' = << >>
    /\ UNCHANGED <<mapping, directory>>

Next ==
    \/ LoadMapping
    \/ FindFile
    \/ SumCounts
    \/ Branch
    \/ Scan
    \/ WritePotential
    \/ WriteValid
    \/ WriteInvalid
    \/ PrintTotal
    \/ Rerun

Spec == Init /\ [][Next]_vars

\* One count file against one mapping: a single pass of the loop of main.
NextCounts ==
    \/ FindFile
    \/ SumCounts
    \/ Branch
    \/ Scan
    \/ WritePotential
    \/ WriteValid
    \/ WriteInvalid
    \/ PrintTotal

SpecCounts == InitCounts /\ [][NextCounts]_vars

(***************************************************************************)
(* Properties                                                              *)
(***************************************************************************)
RECURSIVE SumOver(_, _)
SumOver(f, S) ==
    IF S = {} THEN 0
    ELSE LET x == CHOOSE x \in S : TRUE
         IN  f[x] + SumOver(f, S \ {x})

\* main is inside process_counts, past the loop, for the file actual_file.
ScanCompleted == pc \in {"write_potential", "write_valid", "write_invalid"}

\* The loop of process_counts has just ended for the file actual_file, by
\* running out of rows or by an exception.
ScanEnded ==
    \/ pc = "write_potential"
    \/ pc = "aborted" /\ actual_file # None

InputRows == read_rows(directory, actual_file)

\* The count each row of the input carries: its integer second field, else 0.
RowCounts ==
    [i \in DOMAIN InputRows |->
        IF row_count(InputRows[i]).ok THEN row_count(InputRows[i]).val ELSE 0]

\* The rows after the first whose second field is an integer.
CountedRows == {i \in DOMAIN InputRows : i > 1 /\ row_count(InputRows[i]).ok}

BucketSum ==
    locals.valid_mime_sum + locals.possible_mime_sum + locals.invalid_mime_sum

aggregate_of(d, k) == IF has_key(d, k) THEN dict_get(d, k) ELSE 0

Keys(d) == {d[i].key : i \in DOMAIN d}

----------------------------------------------------------------------------
\* C1: whenever sum_counts and the row loop of process_counts both ran to
\* completion on a file, the three bucket sums add up to what sum_counts
\* returned for that file.
C1_SumInvariant == ScanCompleted => BucketSum = counted

\* C1 witness: a finished scan of a file whose first row carries an integer
\* count, with a later row that was skipped and a later row that was counted.
C1_Witness ==
    /\ pc = "write_potential"
    /\ InputRows # << >>
    /\ row_count(InputRows[1]).ok
    /\ row_count(InputRows[1]).val # 0
    /\ \E i \in DOMAIN InputRows : i > 1 /\ ~row_count(InputRows[i]).ok
    /\ counted # 0

----------------------------------------------------------------------------
\* The bucket and key the three-way rule of the claim gives an entry.
claimed_bucket(entry) ==
    IF entry \in valid_mimes
    THEN [bucket |-> "valid", key |-> entry]
    ELSE IF match_mime(mime_patterns, lower(entry)) # None
    THEN [bucket |-> "potential", key |-> match_mime(mime_patterns, lower(entry))]
    ELSE [bucket |-> "invalid", key |-> entry]

bucket_aggregate(name) ==
    IF name = "valid" THEN locals.valid_mime_aggregate
    ELSE IF name = "potential" THEN locals.potential_mime_aggregate
    ELSE locals.invalid_mime_aggregate

ActualBuckets ==
    UNION {{[bucket |-> n, key |-> k] : k \in Keys(bucket_aggregate(n))} :
                n \in {"valid", "potential", "invalid"}}

ClaimedBuckets == {claimed_bucket(InputRows[i][1]) : i \in CountedRows}

\* C2: after a completed scan every row with an integer count has been added
\* to exactly the bucket the rule names: valid under the entry if the entry is
\* a known mime, else potential under the mime match_mime returns for the
\* lower-cased entry, else invalid under the raw entry.
C2_ThreeWayClassification ==
    ScanCompleted =>
        /\ ActualBuckets = ClaimedBuckets
        /\ \A b \in ClaimedBuckets :
               aggregate_of(bucket_aggregate(b.bucket), b.key) =
                   SumOver(RowCounts,
                           {i \in CountedRows : claimed_bucket(InputRows[i][1]) = b})

----------------------------------------------------------------------------
norm_mime(maprow) == lower(strip(maprow.mime_type))

\* Some pattern compiled from this row of the mapping file is found in the text.
row_matches(maprow, text) ==
    LET pats == row_patterns(lower(strip(maprow.extension)), norm_mime(maprow))
    IN  \E j \in DOMAIN pats : search(pats[j], text)

first_row_of(mime) ==
    CHOOSE j \in DOMAIN mapping :
        /\ norm_mime(mapping[j]) = mime
        /\ \A k \in DOMAIN mapping : norm_mime(mapping[k]) = mime => j <= k

matching_mimes(text) ==
    {norm_mime(mapping[j]) : j \in {k \in DOMAIN mapping : row_matches(mapping[k], text)}}

\* The mime type registered earliest among those with a matching pattern.
earliest_mime(text) ==
    IF matching_mimes(text) = {} THEN None
    ELSE CHOOSE m \in matching_mimes(text) :
            \A o \in matching_mimes(text) : first_row_of(m) <= first_row_of(o)

Candidates ==
    UNION {{r[1], lower(r[1])} : r \in {q \in RowPool : Len(q) > 0}}

\* match_mime alone: for every candidate text the result is the earliest
\* registered mime type with a matching pattern, and None when there is none.
MatchMimePrecedence ==
    pc # "load" =>
        \A text \in Candidates : match_mime(mime_patterns, text) = earliest_mime(text)

\* The rows the claim sends to the potential bucket of a mime type.
PotentialRows(mime) ==
    {i \in CountedRows :
        /\ InputRows[i][1] \notin valid_mimes
        /\ earliest_mime(lower(InputRows[i][1])) = mime}

\* C3: match_mime returns the earliest registered mime type with a matching
\* pattern (None exactly when nothing matches), and after a completed scan
\* every counted entry that is no known mime but matches a pattern has its
\* count in the potential bucket of that mime and its raw text in that
\* mime's entry list.
C3_PrecedenceAndAttribution ==
    /\ MatchMimePrecedence
    /\ ScanCompleted =>
           \A i \in CountedRows :
               LET entry == InputRows[i][1]
                   mime  == earliest_mime(lower(entry))
               IN  (entry \notin valid_mimes /\ mime # None) =>
                       /\ has_key(locals.potential_mime_aggregate, mime)
                       /\ dict_get(locals.potential_mime_aggregate, mime) =
                              SumOver(RowCounts, PotentialRows(mime))
                       /\ has_key(locals.potential_entry_map, mime)
                       /\ entry \in Range(dict_get(locals.potential_entry_map, mime))

----------------------------------------------------------------------------
has_count(row) == row_count(row).ok

\* The file without its malformed data rows.
well_formed_only(rows) ==
    IF rows = << >> THEN << >>
    ELSE <<Head(rows)>> \o SelectSeq(Tail(rows), has_count)

\* C4: the row loop of process_counts never raises, and ends with the
\* aggregates, entry maps and sums it would have without the malformed rows.
C4_MalformedRowsSkipped ==
    ScanEnded =>
        /\ ~locals.raised
        /\ locals = scan_counts(Tables, well_formed_only(InputRows))

----------------------------------------------------------------------------
\* C5: a count file that find_file does not find never ends the run: main
\* goes on to the next environment and to the final total.
C5_MissingFileSkipped == ~(pc = "aborted" /\ actual_file = None)

----------------------------------------------------------------------------
\* C6: when the second run ends, it has ended the way the first did, printed
\* the same lines and left the same files with the same rows in the directory.
C6_SecondRunIdentical ==
    (run = "second" /\ pc \in {"done", "aborted"}) =>
        /\ pc = first_run.pc
        /\ stdout = first_run.stdout
        /\ directory = first_run.directory

\* C6 witness: a second run that wrote all nine reports, one of them with
\* more rows than its header and its total.
C6_Witness ==
    /\ run = "second"
    /\ pc = "done"
    /\ Len(written) = Len(files_envs) + Len(files_envs) + Len(files_envs)
    /\ \E f \in directory :
           /\ f.name = files_envs[1].potential_outfile
           /\ Len(f.rows) > Len(<<MatchedHeader, TotalCount>>)

----------------------------------------------------------------------------
\* C7: no step of main after load_mime_mapping, within one run, changes
\* ext_to_mime, mime_patterns or valid_mimes.
C7_TablesReadOnly ==
    [][(pc # "load" /\ pc' # "load") =>
           /\ ext_to_mime' = ext_to_mime
           /\ mime_patterns' = mime_patterns
           /\ valid_mimes' = valid_mimes]_vars

\* C7 witness: the loop of main has gone through all three environments, one
\* of them with a fuzzy-matched entry, with the loaded tables in place.
C7_Witness ==
    /\ pc = "total"
    /\ mime_patterns # << >>
    /\ valid_mimes # {}
    /\ locals.potential_mime_aggregate # << >>
    /\ Tables = load_mime_mapping(EmptyTables, mapping)

----------------------------------------------------------------------------
\* C8: the first row of a count file contributes to nothing, every later row
\* is considered by sum_counts and by process_counts, and an empty file gives
\* zero totals without error.
C8_HeaderSkipped ==
    ScanEnded =>
        /\ counted = SumOver(RowCounts, CountedRows)
        /\ BucketSum = SumOver(RowCounts, CountedRows)
        /\ InputRows = << >> => (~locals.raised /\ counted = 0 /\ BucketSum = 0)

\* The part of C8 that is about the first row only: what sum_counts returns
\* and, when the loop ran to its end, what the buckets hold.
HeaderNeverCounted ==
    /\ pc \in {"branch", "scan"} => counted = SumOver(RowCounts, CountedRows)
    /\ ScanCompleted => BucketSum = SumOver(RowCounts, CountedRows)

----------------------------------------------------------------------------
\* C9: inside process_counts the environment name is the <ENV> of the
\* expected file name, and never None.
C9_EnvOfLocatedFile ==
    (pc = "scan" \/ ScanCompleted) =>
        /\ env # None
        /\ env = extract_env(files_envs[env_index].infile)

----------------------------------------------------------------------------
\* The nine reports in the order main writes them.
ReportOrder ==
    [k \in 1..(Len(files_envs) + Len(files_envs) + Len(files_envs)) |->
        LET e == files_envs[((k - 1) \div Len(<<"potential", "valid", "invalid">>)) + 1]
            j == (k - 1) % Len(<<"potential", "valid", "invalid">>)
        IN  IF j = 0 THEN e.potential_outfile
            ELSE IF j = 1 THEN e.valid_outfile
            ELSE e.invalid_outfile]

\* The number of reports of the environments before the one main is at.
EarlierReports == (env_index - 1) * Len(<<"potential", "valid", "invalid">>)

\* C10: the reports are written in the order of files_envs; none of an
\* environment's reports is written before its input has been summed and
\* scanned to the end; and when the run aborts, or the read of the input has
\* failed, exactly the reports of the earlier environments have been written
\* in this run and the final total has not been printed.
C10_OrderedPartialOutput ==
    /\ Len(written) <= Len(ReportOrder)
    /\ written = SubSeq(ReportOrder, 1, Len(written))
    /\ \A k \in DOMAIN written : \E f \in directory : f.name = written[k]
    /\ pc \in {"find", "sum", "branch", "scan"} => Len(written) = EarlierReports
    /\ (pc = "aborted" \/ locals.raised) =>
           /\ Len(written) = EarlierReports
           /\ \A k \in DOMAIN stdout : stdout[k].msg # "Total count across all files"

\* C10 witness: the run aborted reading the input of the third environment,
\* after the six reports of the first two were written.
C10_Witness ==
    /\ pc = "aborted"
    /\ env_index = Len(files_envs)
    /\ locals.raised
    /\ Len(written) = EarlierReports
    /\ Len(written) > Len(files_envs)

=============================================================================
